---- MODULE Spec2Model ----
(***************************************************************************)
(* A model of gcode_script.py (NTNU Digilab): the conversion of planar     *)
(* Rhino curves into G-code for a laser cutter.                            *)
(*                                                                         *)
(* Lengths and coordinates that reach the output are integers counting     *)
(* ten-thousandths of a millimetre (0.0001 mm), one decimal finer than the *)
(* three decimals the program writes, so that Decimal.quantize has         *)
(* something to round.  The geometry kernel (rhinoscriptsyntax) is not     *)
(* part of the program: each of its answers is an input of the model.      *)
(***************************************************************************)
EXTENDS Integers, Sequences, FiniteSets, TLC

VARIABLES
    pc,            \* position of the component being run
    q_in,          \* quantization: the value handed to Decimal(x).quantize(ROUNDING)
    q_out,         \* quantization: the quantized value
    q_again,       \* quantization: the quantized value quantized once more
    arc_obj,       \* arc_calc: the kernel's answers about the curve it is given
    arc_ret,       \* arc_calc: the returned (gcode_direction, x_offset, y_offset)
    object_list,   \* sort_advanced: the list of CurveObjects it is given
    material_data, \* sort_advanced: the material profile and the user's answer
    containment,   \* the kernel's PlanarClosedCurveContainment answers
    complete_list, \* sort_advanced: the working list
    discovered_complete, \* sort_advanced: the concatenated walks
    sorted_list,   \* sort_advanced: the returned list
    visits,        \* sort_depth_first: the recursive calls made, as
                   \* <<guid of the node, guid of the child visited>>
    g_objects,     \* gcode_from_objects: the ordered list it is given
    g_index,       \* gcode_from_objects: position of "for obj in object_list"
    gcode,         \* gcode_from_objects: the program text so far, as tokens
    processed,     \* gcode_from_objects: the processed_* counters
    cc,            \* curve_calc_to_lines: its local variables
    BOUNDS_MAX_X,  \* the module global of that name
    BOUNDS_MAX_Y,  \* the module global of that name
    ic,            \* interpret_curves: its argument and local variables
    run            \* run_script: the document, the user and its local variables

quant_vars == <<q_in, q_out, q_again>>
arc_vars == <<arc_obj, arc_ret>>
sort_vars == <<object_list, material_data, containment, complete_list,
               discovered_complete, sorted_list, visits>>

gcode_vars == <<g_objects, g_index, gcode, processed, cc>>

script_vars == <<BOUNDS_MAX_X, BOUNDS_MAX_Y, ic, run>>

vars == <<pc, quant_vars, arc_vars, sort_vars, gcode_vars, script_vars>>

None == "None"

\* A string of the program is the sequence of its characters; NoString stands
\* where the program has None for a string.
NoString == <<None>>

\* curve_area = None, the area of an open curve, among the integer areas
NoArea == -1

(***************************************************************************)
(* Bounds of the model.                                                    *)
(***************************************************************************)
\* quantization inputs range over -MaxFine .. MaxFine ten-thousandths
MaxFine == 45

\* sort_advanced is given at most MaxObjects descriptors of any kind, or up
\* to MaxOpen open ones
MaxObjects == 3

MaxOpen == 7

\* gcode_from_objects is given at most MaxGcodeObjects descriptors
MaxGcodeObjects == 2

\* the scan of curve_calc_to_lines is followed for at most MaxScan steps
MaxScan == 50

\* interpret_curves is given at most MaxCurves curves
MaxCurves == 3

\* a layer of the document run_script is given holds at most
\* MaxLayerObjects objects
MaxLayerObjects == 2

(***************************************************************************)
(* Integer helpers.                                                        *)
(***************************************************************************)
Abs(x) == IF x < 0 THEN -x ELSE x

Range(s) == {s[i] : i \in DOMAIN s}

(***************************************************************************)
(* IEEE 754 doubles, the floats of Python and of the geometry kernel.  A   *)
(* double is sign * m * 2^e: sign is -1, 0 or 1, m the 53 binary digits of *)
(* the mantissa (2^52 <= m < 2^53) as four digits of 14 bits, the lowest   *)
(* first, and e the exponent of its last binary digit.  The result of an   *)
(* operation is the double nearest to the exact result, a tie going to the *)
(* even mantissa.  Exact intermediate results are numbers of eight digits. *)
(* The numbers of the program are far from the ends of the exponent range. *)
(***************************************************************************)
Radix == 2 ^ 14

FloatZero == [sign |-> 0, m |-> <<0, 0, 0, 0>>, e |-> 0]

Wide(s) == [i \in 1 .. 8 |-> IF i <= Len(s) THEN s[i] ELSE 0]

\* the digits of w with the carries (or the borrows) taken to the next digit
Canon(w) ==
    LET v1 == w[1]
        v2 == w[2] + v1 \div Radix
        v3 == w[3] + v2 \div Radix
        v4 == w[4] + v3 \div Radix
        v5 == w[5] + v4 \div Radix
        v6 == w[6] + v5 \div Radix
        v7 == w[7] + v6 \div Radix
        v8 == w[8] + v7 \div Radix
    IN  <<v1 % Radix, v2 % Radix, v3 % Radix, v4 % Radix,
          v5 % Radix, v6 % Radix, v7 % Radix, v8>>

WideLess(x, y) ==
    \E i \in 1 .. 8 : x[i] < y[i] /\ \A j \in (i + 1) .. 8 : x[j] = y[j]

\* the number of binary digits of w
WideBits(w) ==
    IF \A i \in 1 .. 8 : w[i] = 0 THEN 0
    ELSE LET top == CHOOSE i \in 1 .. 8 :
                        w[i] # 0 /\ \A j \in (i + 1) .. 8 : w[j] = 0
         IN  14 * (top - 1)
               + (CHOOSE b \in 1 .. 30 : 2 ^ (b - 1) <= w[top] /\ w[top] < 2 ^ b)

\* w * 2^k, which fits eight digits
ShiftLeft(w, k) ==
    LET q == k \div 14
        r == k % 14
        At(i) == IF i >= 1 /\ i <= 8 THEN w[i] ELSE 0
    IN  [i \in 1 .. 8 |-> (At(i - q) % 2 ^ (14 - r)) * 2 ^ r
                            + At(i - q - 1) \div 2 ^ (14 - r)]

\* w \div 2^k
ShiftRight(w, k) ==
    LET q == k \div 14
        r == k % 14
        At(i) == IF i >= 1 /\ i <= 8 THEN w[i] ELSE 0
    IN  [i \in 1 .. 8 |-> At(i + q) \div 2 ^ r
                            + (At(i + q + 1) % 2 ^ r) * 2 ^ (14 - r)]

\* the binary digit of w at position p, p >= 0
Bit(w, p) ==
    IF p >= 14 * Len(w) THEN 0 ELSE (w[p \div 14 + 1] \div 2 ^ (p % 14)) % 2

\* the binary digits of w below position p are all 0
LowZero(w, p) ==
    \A i \in 1 .. 8 :
        IF 14 * i <= p THEN w[i] = 0
        ELSE IF 14 * (i - 1) < p THEN w[i] % 2 ^ (p - 14 * (i - 1)) = 0
        ELSE TRUE

\* the double nearest to sign * r * 2^e for r of 53 or, after a carry
\* into the next binary digit, 54 binary digits
Normal(sign, r, e) ==
    [sign |-> sign,
     m |-> IF r[4] >= 2 ^ 11 THEN <<0, 0, 0, 2 ^ 10>> ELSE SubSeq(r, 1, 4),
     e |-> e + (IF r[4] >= 2 ^ 11 THEN 1 ELSE 0)]

\* q * 2^e and what was cut off it: half says the first binary digit cut is
\* 1, more says a later one is; a tie goes to the even q
RoundHalf(sign, q, half, more, e) ==
    Normal(sign,
           IF half /\ (more \/ q[1] % 2 = 1)
           THEN Canon([q EXCEPT ![1] = @ + 1]) ELSE q,
           e)

\* FloatRound for w of n binary digits
RoundBits(sign, w, sticky, e, n) ==
    IF n = 0 THEN FloatZero
    ELSE IF n <= 53
    THEN [sign |-> sign, m |-> SubSeq(ShiftLeft(w, 53 - n), 1, 4),
          e |-> e - (53 - n)]
    ELSE RoundHalf(sign, ShiftRight(w, n - 53), Bit(w, n - 54) = 1,
                   sticky \/ ~LowZero(w, n - 54), e + n - 53)

\* the double nearest to sign * (w + s) * 2^e, where 0 < s < 1 if sticky
\* and s = 0 otherwise; with sticky, w has more than 54 binary digits
FloatRound(sign, w, sticky, e) == RoundBits(sign, w, sticky, e, WideBits(w))

\* float(n) of an int n
FloatOfInt(n) ==
    LET a == IF n < 0 THEN -n ELSE n
    IN  FloatRound(IF n < 0 THEN -1 ELSE 1,
              Wide(<<a % Radix, (a \div Radix) % Radix, a \div (Radix * Radix)>>),
              FALSE, 0)

FloatNeg(a) == [a EXCEPT !.sign = -@]

\* sx * X * 2^e + sy * Y * 2^e, not 0; with far, Y stands for a number
\* between 0 and 1
AddWide(sx, sy, X, Y, far, e) ==
    FloatRound(IF sx # sy /\ WideLess(X, Y) THEN sy ELSE sx,
               Canon([i \in 1 .. 8 |->
                         IF sx = sy THEN X[i] + (IF far THEN 0 ELSE Y[i])
                         ELSE IF WideLess(X, Y) THEN Y[i] - X[i]
                         ELSE X[i] - Y[i]]),
               far /\ (sx = sy \/ ~WideLess(X, Y)), e)

\* x + y for x.e >= y.e, neither 0: y is far when it is below the binary
\* digits that decide the rounding of x
AddAligned(x, y, far) ==
    IF x.sign # y.sign /\ ~far /\ x.e = y.e /\ x.m = y.m THEN FloatZero
    ELSE AddWide(x.sign, y.sign,
                 ShiftLeft(Wide(x.m), IF far THEN 3 ELSE x.e - y.e),
                 IF far THEN Wide(<<1>>) ELSE Wide(y.m),
                 far, IF far THEN x.e - 3 ELSE y.e)

\* x + y for x.e >= y.e
AddOrdered(x, y) ==
    IF x.sign = 0 THEN y
    ELSE IF y.sign = 0 THEN x
    ELSE AddAligned(x, y, x.e - y.e > 56)

\* a + b
FloatAdd(a, b) ==
    AddOrdered(IF a.e < b.e THEN b ELSE a, IF a.e < b.e THEN a ELSE b)

\* a - b
FloatSub(a, b) == FloatAdd(a, FloatNeg(b))

\* a * b
FloatMul(a, b) ==
    LET Term(i, j) == IF j >= 1 /\ j <= 4 THEN a.m[i] * b.m[j] ELSE 0
    IN  FloatRound(a.sign * b.sign,
              Canon([k \in 1 .. 8 |-> Term(1, k) + Term(2, k - 1)
                                        + Term(3, k - 2) + Term(4, k - 3)]),
              FALSE, a.e + b.e)

\* a / k for an int k, 0 < k < 2^14: the long division of m * 2^28 by k
FloatDivInt(a, k) ==
    LET c6 == a.m[4]
        c5 == (c6 % k) * Radix + a.m[3]
        c4 == (c5 % k) * Radix + a.m[2]
        c3 == (c4 % k) * Radix + a.m[1]
        c2 == (c3 % k) * Radix
        c1 == (c2 % k) * Radix
    IN  FloatRound(a.sign,
              Canon(<<c1 \div k, c2 \div k, c3 \div k, c4 \div k, c5 \div k,
                      c6 \div k, 0, 0>>),
              c1 % k # 0, a.e - 28)

\* the double nearest to num / den: how a decimal is held
FloatOf(num, den) == FloatDivInt(FloatOfInt(num), den)

Limb == 2 ^ 19

\* one binary digit more of a square root: root (q2, q1, q0) and rest
\* (r2, r1, r0), in limbs of 19 bits, after the next pair of binary digits
SqrtStep(s, pair) ==
    LET a0 == 4 * s[6] + pair
        a1 == 4 * s[5] + a0 \div Limb
        a2 == 4 * s[4] + a1 \div Limb
        t0 == 4 * s[3] + 1
        t1 == 4 * s[2] + t0 \div Limb
        t2 == 4 * s[1] + t1 \div Limb
        ge == \/ a2 > t2
              \/ a2 = t2 /\ a1 % Limb > t1 % Limb
              \/ a2 = t2 /\ a1 % Limb = t1 % Limb /\ a0 % Limb >= t0 % Limb
        s0 == (a0 % Limb) - (IF ge THEN t0 % Limb ELSE 0)
        s1 == (a1 % Limb) - (IF ge THEN t1 % Limb ELSE 0) + s0 \div Limb
        s2 == a2 - (IF ge THEN t2 ELSE 0) + s1 \div Limb
        u0 == 2 * s[3] + (IF ge THEN 1 ELSE 0)
        u1 == 2 * s[2] + u0 \div Limb
        u2 == 2 * s[1] + u1 \div Limb
    IN  <<u2, u1 % Limb, u0 % Limb, s2, s1 % Limb, s0 % Limb>>

RECURSIVE SqrtDigits(_, _, _, _)
\* root and rest after the pairs of binary digits i .. 54 of m * 2^shift,
\* a number of 108 binary digits
SqrtDigits(m, shift, i, s) ==
    IF i > 54 THEN s
    ELSE LET p == 108 - 2 * i - shift
             pair == 2 * (IF p + 1 >= 0 THEN Bit(m, p + 1) ELSE 0)
                       + (IF p >= 0 THEN Bit(m, p) ELSE 0)
         IN  CHOOSE r \in {SqrtDigits(m, shift, i + 1, n) :
                              n \in {SqrtStep(s, pair)}} : TRUE

\* the double nearest to the root s of 54 binary digits and its rest
SqrtRound(s, e) ==
    FloatRound(1, Canon(Wide(<<s[3], s[2] * 2 ^ 5, s[1] * 2 ^ 10>>)),
               s[4] + s[5] + s[6] # 0, e)

\* math.sqrt(a) for a > 0 and shift = 54 or 55, a.e - shift even
SqrtShifted(a, shift) ==
    SqrtRound(SqrtDigits(a.m, shift, 1, <<0, 0, 0, 0, 0, 0>>),
              (a.e - shift) \div 2)

\* math.sqrt(a), a >= 0
FloatSqrt(a) ==
    IF a.sign = 0 THEN FloatZero
    ELSE SqrtShifted(a, IF a.e % 2 = 0 THEN 54 ELSE 55)

\* -1, 0 or 1 as W is less than, equal to or more than V
WideCompare(W, V) == IF W = V THEN 0 ELSE IF WideLess(W, V) THEN -1 ELSE 1

\* -1, 0 or 1 as |a| is less than, equal to or more than num / den,
\* 0 <= num, 0 < den < 2^14
FloatCompare(a, num, den) ==
    IF a.sign = 0 THEN (IF num = 0 THEN 0 ELSE -1)
    ELSE IF num = 0 \/ a.e >= 0 THEN 1
    ELSE IF a.e < -75 THEN -1
    ELSE WideCompare(
             Canon([i \in 1 .. 8 |-> IF i <= 4 THEN a.m[i] * den ELSE 0]),
             ShiftLeft(Wide(<<num % Radix, (num \div Radix) % Radix,
                              num \div (Radix * Radix)>>), -a.e))

\* a < num / den by value, as a float compares with a Decimal; 0 < den < 2^14
FloatBelow(a, num, den) ==
    IF num > 0 THEN a.sign <= 0 \/ FloatCompare(a, num, den) < 0
    ELSE IF num = 0 THEN a.sign < 0
    ELSE a.sign < 0 /\ FloatCompare(a, -num, den) > 0

\* a < b
FloatLess(a, b) ==
    LET Less(x, y) ==
            \/ x.e < y.e
            \/ /\ x.e = y.e
               /\ \E i \in 1 .. 4 :
                     x.m[i] < y.m[i] /\ \A j \in (i + 1) .. 4 : x.m[j] = y.m[j]
    IN  IF a.sign # b.sign THEN a.sign < b.sign
        ELSE IF a.sign > 0 THEN Less(a, b)
        ELSE IF a.sign < 0 THEN Less(b, a)
        ELSE FALSE

\* int(a), towards 0; |a| < 2^31
FloatInt(a) ==
    LET q == ShiftRight(Wide(a.m), -a.e)
    IN  IF a.sign = 0 \/ a.e < -53 THEN 0
        ELSE a.sign * (q[1] + q[2] * Radix + q[3] * Radix * Radix)

\* the int nearest to a * k, 0 < k < 2^14
FloatNearest(a, k) ==
    LET W == Canon([i \in 1 .. 8 |-> IF i <= 4 THEN a.m[i] * k ELSE 0])
        q == ShiftRight(W, -a.e)
    IN  IF a.sign = 0 \/ a.e < -100 THEN 0
        ELSE a.sign * (q[1] + q[2] * Radix + q[3] * Radix * Radix
                         + Bit(W, -a.e - 1))

(***************************************************************************)
(* Decimal quantization.                                                   *)
(* ROUNDING = Decimal('1.000') is one thousandth of a millimetre: 10 model *)
(* units.                                                                  *)
(***************************************************************************)
ROUNDING == 10

UnitsPerMm == 1000 * ROUNDING

\* The module-level CONTEXT = Context(prec=28, rounding=ROUND_HALF_DOWN):
\* a halfway value goes to the neighbour nearer zero.  The program builds
\* this context and never installs or passes it.
QuantizeHalfDown(v) ==
    LET q == v \div ROUNDING
        r == v % ROUNDING
    IN  IF 2 * r < ROUNDING THEN q * ROUNDING
        ELSE IF 2 * r > ROUNDING THEN (q + 1) * ROUNDING
        ELSE IF v >= 0 THEN q * ROUNDING ELSE (q + 1) * ROUNDING

\* A quantization that always steps to the next thousandth.
QuantizeNext(v) == ((v \div ROUNDING) + 1) * ROUNDING

\* Decimal(x).quantize(ROUNDING): no context is given, so the thread's
\* default context decides, and its rounding is ROUND_HALF_EVEN.  v \div
\* ROUNDING is the floor, also for a negative v.
Quantize(v) ==
    LET q == v \div ROUNDING
        r == v % ROUNDING
    IN  IF 2 * r < ROUNDING THEN q * ROUNDING
        ELSE IF 2 * r > ROUNDING THEN (q + 1) * ROUNDING
        ELSE IF q % 2 = 0 THEN q * ROUNDING ELSE (q + 1) * ROUNDING

\* The halfway values a binary float can hold exactly are the odd multiples
\* of 1/16 mm (0.0625, 0.1875, ...); every other float lies strictly on one
\* side of the halfway point.  The inputs are those, and every value of the
\* range that is not halfway.
DyadicTies == {625, 1875, 3125, -625, -1875, -3125}

QuantInputs ==
    {v \in -MaxFine .. MaxFine : 2 * (v % ROUNDING) # ROUNDING} \cup DyadicTies

(***************************************************************************)
(* arc_calc.  A point is a pair <<x, y>> of model units, 0.0001 mm; the    *)
(* kernel holds each coordinate as the double nearest to it, and its       *)
(* vectors are pairs of doubles.  The z component of the program's 3-D     *)
(* vectors is 0 throughout.                                                *)
(***************************************************************************)
\* the double of a coordinate of n model units
Coordinate(n) == FloatOf(n, UnitsPerMm)

\* rs.VectorCreate(to_point, from_point)
VectorCreate(to_point, from_point) ==
    [i \in 1 .. 2 |->
        FloatSub(Coordinate(to_point[i]), Coordinate(from_point[i]))]

\* rs.VectorCrossProduct(a, b)[2]
VectorCrossProductZ(a, b) ==
    FloatSub(FloatMul(a[1], b[2]), FloatMul(a[2], b[1]))

\* rs.VectorLength(v)
VectorLength(v) ==
    FloatSqrt(FloatAdd(FloatMul(v[1], v[1]), FloatMul(v[2], v[2])))

WORLD_X_VECTOR == <<FloatOfInt(1), FloatZero>>

\* The same with the fallback forgotten: 0/0 left as 0.
SignOrZero(c) == c.sign

\* context.divide(context.abs(c), c) for c = Decimal(the float), and
\* Decimal('1') when the division raises (0/0, InvalidOperation is trapped
\* by the default context).
SignOrOne(c) == IF c.sign = 0 THEN 1 ELSE c.sign

\* lines 733-736
GcodeDirection(sign) == IF sign > 0 THEN "G03" ELSE "G02"

\* the vector from from_point to to_point as it is, in model units
VectorSub(to_point, from_point) ==
    <<to_point[1] - from_point[1], to_point[2] - from_point[2]>>

\* rs.VectorAngle(offset_vector, WORLD_X_VECTOR) is the unsigned angle, in
\* 0..180 degrees.  The kernel's angle and the library's cos and sin are not
\* computed: an angle is kept as the pair <<cos(angle) * |offset|,
\* sin(angle) * |offset|>> it stands for, in model units, for the offset as
\* it is (offset), and the floats of the program as what they are off it.
VectorAngleToX(offset) == <<offset[1], Abs(offset[2])>>

\* 360 - offset_angle
Reflex(angle) == <<angle[1], -angle[2]>>

\* lines 755-756 with the correction left out
AngleKeep(cross_product, angle) == angle

\* lines 755-756
AngleFull(cross_product, angle) ==
    IF cross_product < 0 THEN Reflex(angle) ELSE angle

\* lines 758-770: cos and sin of the angle.  A sin of 1.00 or -1.00 makes
\* cos 0.00 and a cos of 1.00 or -1.00 makes sin 0.00, so on the four axis
\* directions both are exact.  Elsewhere each is off its value by the
\* errors of the kernel's angle and of the library's function; error is the
\* pair of the signs this leaves in x_offset and in y_offset, which the
\* kernel and the library decide.
SnapAxis(angle, error) ==
    IF angle[1] = 0 \/ angle[2] = 0 THEN <<0, 0>> ELSE error

\* lines 773-776: an offset, the product of Decimal(cos) or Decimal(sin)
\* and Decimal(offset_length), as the value it stands for in model units and
\* the sign of what the product is off that value.  With cos or sin exactly
\* 1.00 or -1.00 (error = 0) the product is the float offset_length.
Offset(units, offset_length, error) ==
    [units |-> units,
     error |-> IF units = 0 THEN 0
               ELSE IF error # 0 THEN error
               ELSE (IF units > 0 THEN 1 ELSE -1)
                        * FloatCompare(offset_length, Abs(units), UnitsPerMm)]

\* Decimal(offset).quantize(ROUNDING): what the float is off a halfway
\* value decides the side, and ROUND_HALF_EVEN a float that is halfway
QuantizeOffset(offset) ==
    IF 2 * (offset.units % ROUNDING) = ROUNDING /\ offset.error # 0
    THEN ((offset.units \div ROUNDING) + (IF offset.error > 0 THEN 1 ELSE 0))
            * ROUNDING
    ELSE Quantize(offset.units)

\* lines 733-776: the direction from the mid point, the offsets from the
\* angle and the length
ArcReturn(obj, offset_vector, offset_length, angle) ==
    LET mid_vector == VectorCreate(obj.mid_point, obj.center_point)
        mid_sign == SignOrOne(VectorCrossProductZ(offset_vector, mid_vector))
        error == SnapAxis(angle, obj.error)
    IN  [gcode_direction |-> GcodeDirection(mid_sign),
         x_offset |-> Offset(-angle[1], offset_length, error[1]),
         y_offset |-> Offset(angle[2], offset_length, error[2])]

\* lines 741-756: the length of the offset vector and its angle
ArcAngle(obj, offset_vector) ==
    LET cross_product ==
            SignOrOne(VectorCrossProductZ(offset_vector, WORLD_X_VECTOR))
    IN  ArcReturn(obj, offset_vector, VectorLength(offset_vector),
                  AngleFull(cross_product,
                            VectorAngleToX(VectorSub(obj.start_point,
                                                     obj.center_point))))

arc_calc(obj) ==
    ArcAngle(obj, VectorCreate(obj.start_point, obj.center_point))

\* The lattice points of the circles of radius 5 and 10 around the origin:
\* start points in all four quadrants and on the four axis directions.
Lattice == {<<x, y>> \in (-10 .. 10) \X (-10 .. 10) :
                x * x + y * y \in {25, 100}}

\* the lattice in model units, in sixteenths of a millimetre (an offset of
\* 0.1875 mm or 0.3125 mm is halfway between two thousandths, and a double)
\* and in millimetres
ArcScales == {1, 625, UnitsPerMm}

\* the origin, (0.005, 0.005) and (50, 50) mm
ArcCenters == {<<0, 0>>, <<50, 50>>, <<50 * UnitsPerMm, 50 * UnitsPerMm>>}

\* the signs the errors of cos and sin can leave in the offsets of an arc
\* that starts at s from its centre
ArcErrors(s) ==
    IF s[1] = 0 \/ s[2] = 0 THEN {<<0, 0>>}
    ELSE {-1, 1} \X {-1, 1}

\* What the kernel tells arc_calc about a curve: its centre, its start point
\* and the sample DivideCurve(obj, n)[1] (n = 2 for an arc, 4 for a circle),
\* any point of the curve's circle.  A sample on the line through the centre
\* and the start point is the degenerate case of a zero cross product.
ArcInputs ==
    {[center_point |-> t[1],
      start_point |-> <<t[1][1] + t[2] * t[3][1], t[1][2] + t[2] * t[3][2]>>,
      mid_point |-> <<t[1][1] + t[2] * t[4][1], t[1][2] + t[2] * t[4][2]>>,
      error |-> t[5]] :
        t \in {u \in ArcCenters \X ArcScales \X Lattice \X Lattice
                       \X ({-1, 0, 1} \X {-1, 0, 1}) :
                  /\ u[3][1] * u[3][1] + u[3][2] * u[3][2]
                        = u[4][1] * u[4][1] + u[4][2] * u[4][2]
                  /\ u[5] \in ArcErrors(u[3])}}

(***************************************************************************)
(* sort_advanced.  A CurveObject is a record of the fields the sorter      *)
(* reads: guid, closed, area (NoArea when open), start_point <<x, y>> and    *)
(* bounding_box <<min_x, max_x, min_y, max_y>>.                            *)
(***************************************************************************)
\* Python's comparison of the key tuples (start_point[0], start_point[1])
PointGreater(p, q) == p[1] > q[1] \/ (p[1] = q[1] /\ p[2] > q[2])

\* the start point key compared the other way round
StartKeyLess(a, b) == PointGreater(b.start_point, a.start_point)

StartKeyGreater(a, b) == PointGreater(a.start_point, b.start_point)

\* the area key compared the other way round
AreaKeyLess(a, b) == a.area < b.area

AreaKeyGreater(a, b) == a.area > b.area

\* sorted(s, key=..., reverse=True): descending by key and stable, elements
\* of equal key keep the order they had in s.  greater holds the pairs
\* <<i, j>> of positions with key(s[i]) > key(s[j]).
SortedReverse(s, greater) ==
    LET Rank(i) == Cardinality({j \in DOMAIN s :
                        \/ <<j, i>> \in greater
                        \/ (<<i, j>> \notin greater /\ j < i)}) + 1
    IN  [r \in 1 .. Len(s) |-> s[CHOOSE i \in DOMAIN s : Rank(i) = r]]

\* no key: the list stays as it is
NoOrder(s) == {}

\* key=lambda CurveObject: (CurveObject.start_point[0], CurveObject.start_point[1])
ByStart(s) ==
    {<<i, j>> \in (DOMAIN s) \X (DOMAIN s) : StartKeyGreater(s[i], s[j])}

\* key=lambda CurveObject: CurveObject.area
ByArea(s) ==
    {<<i, j>> \in (DOMAIN s) \X (DOMAIN s) : AreaKeyGreater(s[i], s[j])}

\* list_range = 5
list_range == 5

\* the i-th of step runs of neighbours
ContiguousSlice(s, i, step) ==
    LET size == (Len(s) + step - 1) \div step
        first == i * size + 1
        last == IF (i + 1) * size < Len(s) THEN (i + 1) * size ELSE Len(s)
    IN  IF first > last THEN <<>> ELSE SubSeq(s, first, last)

\* s[i::step]
ExtendedSlice(s, i, step) ==
    LET n == IF Len(s) > i THEN (Len(s) - i + step - 1) \div step ELSE 0
    IN  [k \in 1 .. n |-> s[i + 1 + step * (k - 1)]]

RECURSIVE Flatten(_)
\* for x in split_list: for y in x: curves_open_new.append(y)
Flatten(ss) == IF ss = <<>> THEN <<>> ELSE Head(ss) \o Flatten(Tail(ss))

\* lines 559-573
AlternativeOrder(curves_open) ==
    Flatten([i \in 1 .. list_range |->
                ExtendedSlice(curves_open, i - 1, list_range)])

\* needle in text, for two strings
SubstringIn(needle, text) ==
    \E i \in 0 .. Len(text) - Len(needle) :
        SubSeq(text, i + 1, i + Len(needle)) = needle

Akryl == <<"A", "k", "r", "y", "l">>

\* lines 516-517: the message box is shown when material_data is given and
\* 'Akryl' is in str(material_data['MaterialName'])
AlternativeAsked(material) ==
    /\ material.MaterialName # NoString
    /\ SubstringIn(Akryl, material.MaterialName)

\* lines 516-524: the alternative sort is used when the question is asked and
\* the user answers yes (6)
AlternativeSort(material) ==
    /\ AlternativeAsked(material)
    /\ material.response = 6

\* lines 527-577: complete_list = curves_closed + curves_open
CompleteList(objects, material) ==
    LET curves_closed == SelectSeq(objects, LAMBDA e : e.closed = TRUE)
        curves_open == SelectSeq(objects, LAMBDA e : e.closed # TRUE)
        closed_by_start == SortedReverse(curves_closed, ByStart(curves_closed))
        closed_sorted == SortedReverse(closed_by_start, ByArea(closed_by_start))
        open_sorted == SortedReverse(curves_open, ByStart(curves_open))
    IN  closed_sorted \o (IF AlternativeSort(material)
                          THEN AlternativeOrder(open_sorted)
                          ELSE open_sorted)

\* rs.PlanarClosedCurveContainment(a, b): 3 when b is inside a, 2 when a is
\* inside b.  The answers 0 (disjoint) and 1 (intersecting), which the program
\* treats alike, are both modelled as 0.
PlanarClosedCurveContainment(a, b) ==
    IF <<a, b>> \in containment THEN 3
    ELSE IF <<b, a>> \in containment THEN 2
    ELSE 0

\* a box that may share bounds with the parent's
BoxInside(cand_box, parent_box) ==
    /\ cand_box[1] >= parent_box[1]
    /\ cand_box[2] <= parent_box[2]
    /\ cand_box[3] >= parent_box[3]
    /\ cand_box[4] <= parent_box[4]

\* lines 643-646
BoxStrictlyInside(cand_box, parent_box) ==
    /\ cand_box[1] > parent_box[1]
    /\ cand_box[2] < parent_box[2]
    /\ cand_box[3] > parent_box[3]
    /\ cand_box[4] < parent_box[4]

\* lines 632-648: whether findChildrenObjects appends cand
IsChild(parent, cand) ==
    IF parent.guid = cand.guid THEN FALSE
    ELSE IF cand.closed = TRUE
         THEN PlanarClosedCurveContainment(parent.guid, cand.guid) = 3
         ELSE BoxStrictlyInside(cand.bounding_box, parent.bounding_box)

\* findChildrenObjects.  For an open parent the program returns None, which
\* its only caller treats like the empty list (if children:); the model
\* returns the empty list.
findChildrenObjects(parent, candidateList) ==
    IF parent.closed = TRUE
    THEN SelectSeq(candidateList, LAMBDA cand : IsChild(parent, cand))
    ELSE <<>>

\* the test that overlooks the root of the walk
NotInButRoot(x, list) == \A i \in 2 .. Len(list) : list[i] # x

\* child not in discovered_list
NotIn(x, list) == \A i \in DOMAIN list : list[i] # x

RECURSIVE sort_depth_first(_, _, _)
RECURSIVE VisitChildren(_, _, _)
\* sort_depth_first; the value is discovered_list as the call leaves it
sort_depth_first(complete_graph, current_vertex, discovered_list) ==
    VisitChildren(complete_graph,
                  findChildrenObjects(current_vertex, complete_graph),
                  Append(discovered_list, current_vertex))

\* lines 610-613: for child in children
VisitChildren(complete_graph, children, discovered_list) ==
    IF children = <<>> THEN discovered_list
    ELSE VisitChildren(
            complete_graph, Tail(children),
            IF NotIn(Head(children), discovered_list)
            THEN sort_depth_first(complete_graph, Head(children), discovered_list)
            ELSE discovered_list)

RECURSIVE WalkVisits(_, _, _)
RECURSIVE ChildVisits(_, _, _, _)
\* the recursive calls of line 613 that sort_depth_first(complete_graph,
\* current_vertex, discovered_list) makes, in the order it makes them
WalkVisits(complete_graph, current_vertex, discovered_list) ==
    ChildVisits(complete_graph, current_vertex,
                findChildrenObjects(current_vertex, complete_graph),
                Append(discovered_list, current_vertex))

ChildVisits(complete_graph, current_vertex, children, discovered_list) ==
    IF children = <<>> THEN <<>>
    ELSE IF NotIn(Head(children), discovered_list)
    THEN <<<<current_vertex.guid, Head(children).guid>>>>
            \o WalkVisits(complete_graph, Head(children), discovered_list)
            \o ChildVisits(complete_graph, current_vertex, Tail(children),
                    sort_depth_first(complete_graph, Head(children),
                                     discovered_list))
    ELSE ChildVisits(complete_graph, current_vertex, Tail(children),
                     discovered_list)

\* list.remove(x): the first element equal to x is removed
ListRemove(list, x) ==
    LET i == CHOOSE k \in DOMAIN list :
                list[k] = x /\ \A m \in 1 .. k - 1 : list[m] # x
    IN  [k \in 1 .. Len(list) - 1 |-> IF k < i THEN list[k] ELSE list[k + 1]]

\* list.remove(x) raises ValueError when x is not in the list
CanRemoveAll(list, discovered) ==
    \A i \in DOMAIN discovered :
        Cardinality({k \in DOMAIN discovered : discovered[k] = discovered[i]})
            <= Cardinality({k \in DOMAIN list : list[k] = discovered[i]})

\* only the root of the walk is taken off the working list
RemoveHeadOnly(list, discovered) == Tail(list)

RECURSIVE RemoveAll(_, _)
\* lines 584-585: for x in discovered: complete_list.remove(x)
RemoveAll(list, discovered) ==
    IF discovered = <<>> THEN list
    ELSE RemoveAll(ListRemove(list, Head(discovered)), Tail(discovered))

\* list.reverse()
Reverse(list) == [i \in 1 .. Len(list) |-> list[Len(list) + 1 - i]]

RECURSIVE Walks(_, _)
\* lines 581-586: the while loop, run to its end
Walks(complete, discovered) ==
    IF Len(complete) = 0 THEN discovered
    ELSE LET walk == sort_depth_first(complete, complete[1], <<>>)
         IN  Walks(RemoveAll(complete, walk), discovered \o walk)

\* sort_advanced(object_list, material_data) as a whole
sort_advanced(objects, material) ==
    Reverse(Walks(CompleteList(objects, material), <<>>))

(***************************************************************************)
(* The inputs of sort_advanced.                                            *)
(***************************************************************************)
StartPoints == {<<0, 1>>, <<1, 0>>}

Areas == {10, 50, 100}

\* every closed curve spans the same box; an open curve is strictly inside
\* it or shares its left bound
OuterBox == <<0, 3, 0, 3>>

OpenBoxes == {<<1, 2, 1, 2>>, <<0, 2, 1, 2>>}

Shapes ==
    {[closed |-> TRUE, area |-> a, start_point |-> p, bounding_box |-> OuterBox] :
        a \in Areas, p \in StartPoints}
    \cup
    {[closed |-> FALSE, area |-> NoArea, start_point |-> p, bounding_box |-> b] :
        p \in StartPoints, b \in OpenBoxes}

\* the descriptors of a list carry their position in it as guid
WithGuids(shapes) ==
    [i \in DOMAIN shapes |->
        [guid |-> i, closed |-> shapes[i].closed, area |-> shapes[i].area,
         start_point |-> shapes[i].start_point,
         bounding_box |-> shapes[i].bounding_box]]

MixedLists ==
    UNION {{WithGuids(f) : f \in [1 .. n -> Shapes]} : n \in 0 .. MaxObjects}

\* runs of open curves with distinct start points, in scrambled order, long
\* enough for the alternative sort's slices to differ from the sorted list
OpenRuns ==
    {[i \in 1 .. n |->
        [guid |-> i, closed |-> FALSE, area |-> NoArea,
         start_point |-> <<(3 * i) % (MaxOpen + 1), i % 2>>,
         bounding_box |-> <<1, 2, 1, 2>>]] : n \in MaxObjects + 1 .. MaxOpen}

InputLists == MixedLists \cup OpenRuns

\* The answers a planar kernel can give about the closed curves of a list:
\* a curve inside another has the smaller area, and inside is transitive.
Containments(objects) ==
    LET possible == {<<p, c>> \in (DOMAIN objects) \X (DOMAIN objects) :
                        /\ objects[p].closed /\ objects[c].closed
                        /\ objects[c].area < objects[p].area}
    IN  {r \in SUBSET possible :
            \A x \in r : \A y \in r :
                x[2] = y[1] => <<x[1], y[2]>> \in r}

\* Any answers at all about the closed curves of a list, as a kernel working
\* with tolerances may give them: a inside b together with b inside a, or
\* a cycle through several curves.
AnyContainments(objects) ==
    SUBSET {<<p, c>> \in (DOMAIN objects) \X (DOMAIN objects) :
                p # c /\ objects[p].closed /\ objects[c].closed}

\* a closed curve and an open curve strictly inside its box
CyclicShapes ==
    {[closed |-> TRUE, area |-> 50, start_point |-> <<0, 1>>,
      bounding_box |-> OuterBox],
     [closed |-> FALSE, area |-> NoArea, start_point |-> <<1, 0>>,
      bounding_box |-> <<1, 2, 1, 2>>]}

CyclicLists ==
    UNION {{WithGuids(f) : f \in [1 .. n -> CyclicShapes]} :
                n \in 0 .. MaxObjects}

\* material_data=None, the default: no profile, no question asked.  The
\* response is the message box's answer, 6 (yes) or 7 (no).
NoMaterial == [MaterialName |-> NoString, response |-> 7]

\* names of profiles: 'Akryl', 'Akryl 3mm', 'Plexi/Akryl', 'MDF'
MaterialNames ==
    {Akryl,
     Akryl \o <<" ", "3", "m", "m">>,
     <<"P", "l", "e", "x", "i", "/">> \o Akryl,
     <<"M", "D", "F">>}

MaterialInputs ==
    {NoMaterial}
    \cup {[MaterialName |-> name, response |-> a] :
             name \in MaterialNames, a \in {6, 7}}

(***************************************************************************)
(* gcode_from_objects.  The program text is a sequence of tokens: a        *)
(* command with its X, Y, I, J words (already quantized, in units of       *)
(* 0.0001 mm), or a line break.  The '\n' of the source is the token NL, so *)
(* that a command followed by no line break is visible.                    *)
(***************************************************************************)
Tok(cmd, x, y, i, j) == [cmd |-> cmd, x |-> x, y |-> y, i |-> i, j |-> j]

NL == Tok("NL", 0, 0, 0, 0)

M12 == Tok("M12", 0, 0, 0, 0)

M22 == Tok("M22", 0, 0, 0, 0)

\* 'G00' + ' X' + str(Decimal(p[0]).quantize(ROUNDING)) + ' Y' + ...
G00(p) == Tok("G00", Quantize(p[1]), Quantize(p[2]), 0, 0)

G01(p) == Tok("G01", Quantize(p[1]), Quantize(p[2]), 0, 0)

\* gcode_direction + ' X' + ... + ' Y' + ... + ' I' + ... + ' J' + ...
ArcMove(ret, end) ==
    Tok(ret.gcode_direction, Quantize(end[1]), Quantize(end[2]),
        QuantizeOffset(ret.x_offset), QuantizeOffset(ret.y_offset))

\* the header with the laser switched on before the rapid move
BlockHeaderLaserFirst(obj) == <<NL, M12, NL, G00(obj.start_point), NL>>

\* '\n' + 'G00 X.. Y..' + '\nM12\n'
BlockHeader(obj) == <<NL, G00(obj.start_point), NL, M12, NL>>

\* 'M22\n'
BlockFooter == <<M22, NL>>

(***************************************************************************)
(* The geometry kernel, as far as gcode_from_objects asks it.  A           *)
(* descriptor carries the kernel's answers for its curve:                  *)
(*   center_point, mid_point   ArcCenterPoint, DivideCurve(obj, 2)[1]      *)
(*   turn                      +1 counter-clockwise, -1 clockwise (circle) *)
(*   domain                    CurveDomain, <<t0, t1>>                     *)
(*   end_noise                 what the end of the second half of a circle *)
(*                             is off the start point (kernel arithmetic)  *)
(*   subs                      ExplodeCurves: the sub-elements             *)
(*   error                     the signs of what the kernel's angle and the *)
(*                             library's cos and sin leave in the offsets  *)
(*                             of an arc that starts off the axis          *)
(*                             directions, see SnapAxis                    *)
(*   sub_errors                the same for the sub-curves of a circle,    *)
(*                             one pair for each: arc_calc is called on    *)
(*                             each sub-curve, and what it leaves in the   *)
(*                             offsets of the one says nothing about the   *)
(*                             other                                       *)
(*   step, step_len, loop, curv   a free-form curve, see below             *)
(***************************************************************************)
Origin == <<0, 0>>

BlankObject ==
    [curve_type |-> "line", start_point |-> Origin, end_point |-> Origin,
     center_point |-> Origin, mid_point |-> Origin, turn |-> 1,
     domain |-> <<0, 0>>, end_noise |-> Origin, subs |-> <<>>,
     step |-> Origin, step_len |-> 0, loop |-> FALSE, curv |-> <<>>,
     error |-> <<1, 1>>, sub_errors |-> <<<<1, 1>>, <<1, 1>>>>]

\* a sub-element: kind is "arc", "line" or "other"; length is
\* int(rs.CurveLength(sub)) and samples are the kernel's answers to the
\* EvaluateCurve calls made for an "other" sub-element
BlankSub ==
    [kind |-> "line", start_point |-> Origin, end_point |-> Origin,
     center_point |-> Origin, mid_point |-> Origin, length |-> 0,
     samples |-> <<>>, error |-> <<1, 1>>]

VectorAdd(a, b) == <<a[1] + b[1], a[2] + b[2]>>

\* a quarter turn of v, counter-clockwise for turn = 1
QuarterTurn(v, turn) == <<-turn * v[2], turn * v[1]>>

RECURSIVE QuarterTurns(_, _, _)
QuarterTurns(v, turn, n) ==
    IF n = 0 THEN v ELSE QuarterTurns(QuarterTurn(v, turn), turn, n - 1)

\* The direction from the centre of the circle to its point k eighth turns
\* after the start point, as a vector of that direction: the radius vector
\* for an even k, the diagonal between two radius vectors for an odd k.
\* arc_calc uses the sample for the sign of a cross product only.
CircleDirection(v, turn, k) ==
    IF k % 2 = 0 THEN QuarterTurns(v, turn, k \div 2)
    ELSE LET r == QuarterTurns(v, turn, (k - 1) \div 2)
         IN  VectorAdd(r, QuarterTurn(r, turn))

\* The parameter of a circle counts half turns from the start point, its
\* domain is <<t0, t0 + 2>>.
HalfTurns == 2

\* curve_domain[1] / 2, the parameter the circle is split at, in quarter
\* turns: a parameter t stands for 2 * t quarter turns, so half of
\* curve_domain[1] for as many as curve_domain[1] counts (the domain is a
\* pair of floats, the division does not truncate).  The point of the
\* circle a whole number of quarter turns after the start point has
\* coordinates of whole model units.
SplitParameter(obj) == obj.domain[2]

\* rs.SplitCurve returns None when the parameter is not inside the domain:
\* curve_domain[1] / 2 <= curve_domain[0] or >= curve_domain[1], all three
\* in quarter turns
SplitFails(obj) ==
    \/ SplitParameter(obj) <= 2 * obj.domain[1]
    \/ SplitParameter(obj) >= 2 * obj.domain[2]

\* rs.SplitCurve(obj.guid, curve_domain[1] / 2): the part of the circle up
\* to the parameter curve_domain[1] / 2 and the part after it, both running
\* the way the circle runs.  split is the place of the cut, in quarter
\* turns after the start point: a part runs from a to b quarter turns after
\* it, and its sample lies in its middle, a + b eighth turns after the
\* start point.  Each part is a curve of its own to arc_calc (line 1151):
\* the errors of its offsets are those of its own angle, cos and sin, the
\* part's own pair of sub_errors.
SplitCurve(obj) ==
    LET v == VectorSub(obj.start_point, obj.center_point)
        split == SplitParameter(obj) - 2 * obj.domain[1]
        At(k) == VectorAdd(obj.center_point, CircleDirection(v, obj.turn, k))
        Part(a, b, noise, error) ==
            [BlankSub EXCEPT !.kind = "arc",
                             !.start_point = At(2 * a),
                             !.end_point = VectorAdd(At(2 * b), noise),
                             !.center_point = obj.center_point,
                             !.mid_point = At(a + b),
                             !.error = error]
    IN  <<Part(0, split, Origin, obj.sub_errors[1]),
          Part(split, 2 * HalfTurns, obj.end_noise, obj.sub_errors[2])>>

\* What arc_calc(obj.guid) reads of an arc descriptor's curve, and what
\* arc_calc(sub) reads of a sub-curve: the start point is the one of the
\* curve it is given.
ArcOfParent(obj, sub) ==
    [center_point |-> sub.center_point, start_point |-> obj.start_point,
     mid_point |-> sub.mid_point, error |-> sub.error]

ArcOf(obj, sub) ==
    [center_point |-> sub.center_point, start_point |-> sub.start_point,
     mid_point |-> sub.mid_point, error |-> sub.error]

RECURSIVE ArcMoves(_, _)
ArcMoves(obj, sub_curves) ==
    IF sub_curves = <<>> THEN <<>>
    ELSE <<ArcMove(arc_calc(ArcOf(obj, Head(sub_curves))),
                   Head(sub_curves).end_point), NL>>
            \o ArcMoves(obj, Tail(sub_curves))

\* the test of the raw coordinates, without the quantization
ClosureGapRaw(last_entry, start_point) ==
    last_entry[1] # start_point[1] \/ last_entry[2] # start_point[2]

\* "If there are any rounding errors and the end point of the last arc is
\* not the same as the start point of the first arc"
ClosureGap(last_entry, start_point) ==
    \/ Quantize(last_entry[1]) # Quantize(start_point[1])
    \/ Quantize(last_entry[2]) # Quantize(start_point[2])

\* the circle branch: header, one arc move per half, the closing line if
\* there is a gap (with no line break after it), footer
CircleBlock(obj) ==
    LET sub_curves == SplitCurve(obj)
        last_entry == sub_curves[Len(sub_curves)].end_point
    IN  BlockHeader(obj)
            \o ArcMoves(obj, sub_curves)
            \o (IF ClosureGap(last_entry, obj.start_point)
                THEN <<NL, G01(obj.start_point)>> ELSE <<>>)
            \o BlockFooter

\* the arc branch
ArcBlock(obj) ==
    BlockHeader(obj)
        \o <<ArcMove(arc_calc(ArcOf(obj, obj)), obj.end_point), NL>>
        \o BlockFooter

\* the line branch
LineBlock(obj) ==
    BlockHeader(obj) \o <<G01(obj.end_point), NL>> \o BlockFooter

RECURSIVE SegmentMoves(_)
SegmentMoves(sub_curves) ==
    IF sub_curves = <<>> THEN <<>>
    ELSE <<G01(Head(sub_curves).end_point), NL>>
            \o SegmentMoves(Tail(sub_curves))

\* the polyline branch: a line to the end of every exploded segment
PolylineBlock(obj) ==
    BlockHeader(obj) \o SegmentMoves(obj.subs) \o BlockFooter

\* the sub-element that is neither an arc nor a line: a line to each of the
\* int(length) points the kernel evaluates, the first of them at the start
\* of the sub-element's domain; "if curve_point is not None"
NoPoint == <<>>

RECURSIVE SampleMoves(_)
SampleMoves(samples) ==
    IF samples = <<>> THEN <<>>
    ELSE (IF Head(samples) = NoPoint THEN <<>>
          ELSE <<G01(Head(samples)), NL>>)
            \o SampleMoves(Tail(samples))

RECURSIVE SubMoves(_, _)
SubMoves(obj, sub_curves) ==
    IF sub_curves = <<>> THEN <<>>
    ELSE LET sub == Head(sub_curves)
             moves ==
                IF sub.kind = "arc"
                THEN <<ArcMove(arc_calc(ArcOf(obj, sub)), sub.end_point), NL>>
                ELSE IF sub.kind = "line"
                THEN <<G01(sub.end_point), NL>>
                ELSE SampleMoves(SubSeq(sub.samples, 1, sub.length))
         IN  moves \o SubMoves(obj, Tail(sub_curves))

\* the polycurve branch
PolycurveBlock(obj) ==
    BlockHeader(obj) \o SubMoves(obj, obj.subs) \o BlockFooter

(***************************************************************************)
(* curve_calc_to_lines.  The parameter of a free-form curve counts half    *)
(* scan steps from the start of its domain <<t0, t1>>, so that a domain    *)
(* can end between two scan steps.  The kernel's answers:                  *)
(*   EvaluateCurve at scan step k  the start point moved k times by step   *)
(*                                 for an open curve, the corners of a     *)
(*                                 triangle in turn for a closed one      *)
(*   CurveCurvature at scan step k curv[k + 1], constant up to the next    *)
(*                                 scan step                               *)
(*   CurveLength                   the length of the path over the domain  *)
(* The program's next_parameter is a double, curve_domain[0] with the      *)
(* double 0.005 added turn by turn, and the sum carries its rounding       *)
(* errors into the comparisons with curve_domain[1].  The kernel's answers *)
(* do not change within those errors: the parameter reached by k           *)
(* additions is answered as scan step k.                                   *)
(***************************************************************************)
segment_min_length == 1000

segment_max_length == 55000

\* scan_resolution = 0.005, in half scan steps
scan_resolution == 2

\* A, B, C, D of the cubic, in units of 1 / CubicScale
CubicScale == 10000000

A == -19714200

B == 29585000

C == 129348

D == 0

RECURSIVE GCD(_, _)
GCD(a, b) == IF b = 0 THEN a ELSE GCD(b, a % b)

\* the double of a parameter of n half scan steps, the one nearest to
\* n * 0.0025; the doubles of the parameters of the curves below are kept
Doubles == [n \in 0 .. 48 + scan_resolution * (MaxScan + 1) |-> FloatOf(n, 400)]

Double(n) == IF n \in DOMAIN Doubles THEN Doubles[n] ELSE FloatOf(n, 400)

\* scan_resolution = 0.005, the double
ScanResolution == Double(scan_resolution)

\* rs.CurveDomain(obj.guid)
CurveDomain(obj) == <<Double(obj.domain[1]), Double(obj.domain[2])>>

\* the points of a closed curve repeat after LoopSteps scan steps
LoopSteps == 3

\* rs.EvaluateCurve(obj.guid, t) for t the sum of curve_domain[0] and k
\* times scan_resolution
EvaluateCurve(obj, k) ==
    LET Times(n) == <<obj.start_point[1] + n * obj.step[1],
                      obj.start_point[2] + n * obj.step[2]>>
    IN  IF ~obj.loop THEN Times(k)
        ELSE IF k % LoopSteps = 0 THEN obj.start_point
        ELSE IF k % LoopSteps = 1 THEN Times(1)
        ELSE VectorAdd(obj.start_point, QuarterTurn(obj.step, 1))

\* rs.CurveCurvature(obj.guid, t)[3] for t = t0 + num / den inside the
\* domain, its end answered as the scan step before it
CurveCurvature(obj, num, den) ==
    LET k == num \div (den * scan_resolution)
    IN  obj.curv[IF k < Len(obj.curv) THEN k + 1 ELSE Len(obj.curv)]

\* int(rs.CurveLength(obj.guid)), whole millimetres
CurveDivisions(obj) ==
    (obj.step_len * (obj.domain[2] - obj.domain[1]))
        \div (scan_resolution * UnitsPerMm)

\* the curvatures sampled by "for i in range (0, curve_divisions)", at
\* curve_domain[0] + ((curve_domain[1] - curve_domain[0]) / divisions) * i
PreScan(obj) ==
    LET n == CurveDivisions(obj)
        width == obj.domain[2] - obj.domain[1]
    IN  {CurveCurvature(obj, width * i, n) : i \in 0 .. n - 1}

Min(S) == CHOOSE x \in S : \A y \in S : x <= y

Max(S) == CHOOSE x \in S : \A y \in S : x >= y

\* round n / d to the nearest integer, a half to the even one (d > 0)
RoundHalfEven(n, d) ==
    LET q == n \div d
        r == n % d
    IN  IF 2 * r < d THEN q
        ELSE IF 2 * r > d THEN q + 1
        ELSE IF q % 2 = 0 THEN q ELSE q + 1

\* segment_length for the curvature c between the extremes lo # hi:
\*   normalized = (c - lo) / (hi - lo) = p / q
\*   cubified   = A normalized^3 + B normalized^2 + C normalized + D
\*   Decimal(cubified * max + (1 - cubified) * min).quantize(ROUNDING)
SegmentLength(c, lo, hi) ==
    LET g0 == GCD(Abs(c - lo), Abs(hi - lo))
        sg == IF hi > lo THEN 1 ELSE -1
        p == sg * ((c - lo) \div g0)
        q == sg * ((hi - lo) \div g0)
        cube == A * p * p * p + B * p * p * q + C * p * q * q + D * q * q * q
        span == segment_max_length - segment_min_length
        g == GCD(span, CubicScale)
        den == (CubicScale \div g) * q * q * q
        num == segment_min_length * den + cube * (span \div g)
    IN  ROUNDING * RoundHalfEven(num, den * ROUNDING)

\* length < segment_length: the float against the Decimal, by value
LengthLess(length, segment_length) ==
    FloatBelow(length, segment_length, UnitsPerMm)

\* the local variables of curve_calc_to_lines before its first statement;
\* targets is the history of the outer loop: for every segment started, the
\* kernel's value at its start and the segment_length computed from it
NoFrame ==
    [obj |-> BlankObject, gcode |-> <<>>, curve_curvature_min |-> 0,
     curve_curvature_max |-> 0, scanned |-> FALSE,
     curve_domain |-> <<Double(0), Double(0)>>,
     next_parameter |-> Double(0), turns |-> 0,
     current_point |-> Origin, return_point |-> Origin, bound |-> FALSE,
     length |-> FloatZero, segment_length |-> 0, point_list |-> <<>>,
     targets |-> <<>>]

\* "for point in point_list": a line to every point but the start point
RECURSIVE PointMoves(_, _)
PointMoves(obj, point_list) ==
    IF point_list = <<>> THEN <<>>
    ELSE (IF /\ Quantize(Head(point_list)[1]) = Quantize(obj.start_point[1])
             /\ Quantize(Head(point_list)[2]) = Quantize(obj.start_point[2])
          THEN <<>>
          ELSE <<G01(Head(point_list)), NL>>)
            \o PointMoves(obj, Tail(point_list))

\* "if len(point_list):" guards the lines to the points and the line to
\* the end point alike
CutMoves(obj, point_list) ==
    IF Len(point_list) > 0
    THEN PointMoves(obj, point_list) \o <<G01(obj.end_point), NL>>
    ELSE <<>>

(***************************************************************************)
(* The descriptors gcode_from_objects is given.                            *)
(***************************************************************************)
CircleCenter == <<50000, 50000>>

\* a radius of 1 mm, along an axis and oblique
CircleRadii == {<<10000, 0>>, <<-6000, 8000>>}

\* the start of a circle's domain: the code splits at curve_domain[1] / 2,
\* the middle of the domain for 0, three quarters of it for -1, a quarter
\* of it for 1, a parameter before the domain for 3
CircleDomainStarts == {0, -1, 1, 3}

\* the kernel's end of the second half, off the start point: nothing, less
\* than half a thousandth, more than half a thousandth in x, in y
EndNoises == {<<0, 0>>, <<4, 0>>, <<6, 0>>, <<0, -6>>}

Circle(v, turn, t0, noise) ==
    [BlankObject EXCEPT !.curve_type = "circle",
                        !.start_point = VectorAdd(CircleCenter, v),
                        !.end_point = VectorAdd(CircleCenter, v),
                        !.center_point = CircleCenter,
                        !.turn = turn,
                        !.domain = <<t0, t0 + HalfTurns>>,
                        !.end_noise = noise]

\* the signs the errors of cos and sin can leave in the two offsets of one
\* arc that starts off the axis directions
ErrorSigns == {-1, 1} \X {-1, 1}

\* a radius whose offset in x, 0.1875 mm, is halfway between two
\* thousandths, and whose offset in y, 0.25 mm, is a thousandth
TieRadius == <<1875, 2500>>

\* circles of that radius, split in the middle, at three quarters and at a
\* quarter, with and without a gap at the end, and with every pair of
\* signs in the offsets of the first part and every pair in those of the
\* second part
TieCircles ==
    {[Circle(TieRadius, turn, t0, noise) EXCEPT !.sub_errors = <<e1, e2>>] :
        turn \in {1, -1}, t0 \in {0, -1, 1}, noise \in {<<0, 0>>, <<0, -6>>},
        e1 \in ErrorSigns, e2 \in ErrorSigns}

\* the circles of CircleRadii have no offset halfway between two
\* thousandths: what is written of them is the same for all sub_errors
Circles ==
    {Circle(v, turn, t0, noise) :
        v \in CircleRadii, turn \in {1, -1}, t0 \in CircleDomainStarts,
        noise \in EndNoises}
    \cup TieCircles

\* a half circle from start to end, counter-clockwise or clockwise
Arc(v, turn) ==
    [BlankObject EXCEPT !.curve_type = "arc",
                        !.start_point = VectorAdd(CircleCenter, v),
                        !.end_point = VectorAdd(CircleCenter, <<-v[1], -v[2]>>),
                        !.center_point = CircleCenter,
                        !.mid_point =
                            VectorAdd(CircleCenter, QuarterTurn(v, turn)),
                        !.turn = turn]

\* arcs whose offset in x, 0.1875 mm, is halfway between two thousandths:
\* what the float is off it decides the I that is written
TieArcs ==
    {[Arc(<<-1875, 2500>>, turn) EXCEPT !.error = e] :
        turn \in {1, -1}, e \in {<<1, 1>>, <<-1, 1>>}}

Arcs == {Arc(v, turn) : v \in CircleRadii, turn \in {1, -1}} \cup TieArcs

Line(from, to) ==
    [BlankObject EXCEPT !.curve_type = "line",
                        !.start_point = from, !.end_point = to]

Lines == {Line(<<0, 0>>, <<1875, 20004>>),
          Line(<<10000, 10000>>, <<20000, 10006>>)}

LineSub(from, to) ==
    [BlankSub EXCEPT !.kind = "line", !.start_point = from, !.end_point = to]

ArcSub(v, turn) ==
    [BlankSub EXCEPT !.kind = "arc",
                     !.start_point = VectorAdd(CircleCenter, v),
                     !.end_point = VectorAdd(CircleCenter, <<-v[1], -v[2]>>),
                     !.center_point = CircleCenter,
                     !.mid_point =
                        VectorAdd(CircleCenter, QuarterTurn(v, turn))]

OtherSub(from, to, samples) ==
    [BlankSub EXCEPT !.kind = "other", !.start_point = from,
                     !.end_point = to, !.length = Len(samples),
                     !.samples = samples]

Joined(type, subs) ==
    [BlankObject EXCEPT !.curve_type = type,
                        !.start_point = subs[1].start_point,
                        !.end_point = subs[Len(subs)].end_point,
                        !.subs = subs]

Polylines ==
    {Joined("polyline", <<LineSub(<<0, 0>>, <<10000, 0>>),
                          LineSub(<<10000, 0>>, <<10000, 10000>>)>>),
     Joined("polyline", <<LineSub(<<0, 0>>, <<10000, 0>>),
                          LineSub(<<10000, 0>>, <<10000, 10000>>),
                          LineSub(<<10000, 10000>>, <<0, 0>>)>>)}

\* an arc and a line; a free-form element of 2.x mm alone; a line and a
\* free-form element shorter than 1 mm; a free-form element shorter than
\* 1 mm alone
Polycurves ==
    {Joined("polycurve", <<ArcSub(<<10000, 0>>, 1),
                           LineSub(<<40000, 50000>>, <<40000, 40000>>)>>),
     Joined("polycurve", <<OtherSub(<<0, 0>>, <<20000, 5000>>,
                                    <<<<0, 0>>, <<10000, 4000>>>>)>>),
     Joined("polycurve", <<LineSub(<<0, 0>>, <<10000, 0>>),
                           OtherSub(<<10000, 0>>, <<15000, 5000>>, <<>>)>>),
     Joined("polycurve", <<OtherSub(<<0, 0>>, <<5000, 5000>>, <<>>)>>)}

\* what one scan step moves the point of a free-form curve, and how far:
\* 0.3 mm, 0.9 mm, 1.5 mm, 3 mm
ScanSteps ==
    {[vec |-> <<3000, 0>>, len |-> 3000],
     [vec |-> <<0, 9000>>, len |-> 9000],
     [vec |-> <<9000, 12000>>, len |-> 15000],
     [vec |-> <<30000, 0>>, len |-> 30000]}

\* the domain of a free-form curve is 2, 2.5 or 3 scan steps wide
DomainWidths == {4, 5, 6}

\* the curvature of a free-form curve at its scan steps
Curvatures == 0 .. 2

CurvatureProfiles == [1 .. LoopSteps -> Curvatures]

FreeStart == <<20000, 10000>>

FreeForm(type, s, loop, width, curv) ==
    [BlankObject EXCEPT
        !.curve_type = type,
        !.start_point = FreeStart,
        !.end_point =
            IF loop THEN FreeStart
            ELSE <<FreeStart[1] + (s.vec[1] * width) \div scan_resolution,
                   FreeStart[2] + (s.vec[2] * width) \div scan_resolution>>,
        !.domain = <<0, width>>,
        !.step = s.vec,
        !.step_len = s.len,
        !.loop = loop,
        !.curv = curv]

FreeForms ==
    {FreeForm(type, s, FALSE, width, curv) :
        type \in {"ellipse", "curve"}, s \in ScanSteps,
        width \in DomainWidths, curv \in CurvatureProfiles}
    \cup
    {FreeForm(type, s, TRUE, LoopSteps * scan_resolution, curv) :
        type \in {"ellipse", "curve"}, s \in ScanSteps,
        curv \in CurvatureProfiles}

\* curves of four scan steps of 0.6 mm: 2.4 mm long, so that the pre-scan
\* takes two samples, at the first and the third scan step
Step06 == [vec |-> <<6000, 0>>, len |-> 6000]

LongWidth == 8

LongProfiles == [1 .. LongWidth \div scan_resolution -> Curvatures]

LongForms ==
    {FreeForm(type, Step06, FALSE, LongWidth, curv) :
        type \in {"ellipse", "curve"}, curv \in LongProfiles}

Step15 == [vec |-> <<9000, 12000>>, len |-> 15000]

Step30 == [vec |-> <<30000, 0>>, len |-> 30000]

\* curves of steps of 3 mm whose scan does not add up to the end of the
\* domain: after 6 steps from 0 the sum is above 0.03, after 10 steps from 0
\* below 0.05, after 4 steps from 0.1 above 0.12, after 7 steps from 0.0025
\* below 0.0375; the curvature is 0 but at one scan step
DriftDomains == {<<0, 12>>, <<0, 20>>, <<40, 48>>, <<1, 15>>}

DriftForms ==
    {[FreeForm(type, Step30, FALSE, d[2] - d[1],
               [i \in 1 .. (d[2] - d[1]) \div scan_resolution |->
                   IF i = peak THEN 1 ELSE 0])
        EXCEPT !.domain = d] :
        type \in {"ellipse", "curve"}, d \in DriftDomains, peak \in 1 .. 3}

\* the descriptors that are combined into lists of more than one
Combined ==
    {Circle(<<10000, 0>>, 1, 0, <<0, 0>>),
     Circle(<<-6000, 8000>>, -1, -1, <<6, 0>>),
     Arc(<<10000, 0>>, -1),
     Line(<<0, 0>>, <<1875, 20004>>),
     Joined("polyline", <<LineSub(<<0, 0>>, <<10000, 0>>),
                          LineSub(<<10000, 0>>, <<10000, 10000>>)>>),
     Joined("polycurve", <<ArcSub(<<10000, 0>>, 1),
                           LineSub(<<40000, 50000>>, <<40000, 40000>>)>>),
     FreeForm("curve", Step30, FALSE, 6, <<0, 1, 2>>),
     FreeForm("ellipse", Step15, TRUE, 6, <<2, 1, 0>>),
     FreeForm("curve", Step15, FALSE, 6, <<2, 1, 0>>),
     FreeForm("curve", Step15, FALSE, 4, <<1, 1, 1>>)}

\* the scan steps of the free-form curves that are scanned: those of the
\* curves 1 mm long or longer
ScannedSteps ==
    {s \in ScanSteps :
        s.len * Max(DomainWidths) >= scan_resolution * UnitsPerMm}
        \cup {Step06}

\* a point where a segment of a free-form curve starts, and a point that
\* the scan reaches from it: on an open curve the scan steps it takes to
\* segment_max_length from one of the first scan steps of the curve, on a
\* closed curve any two of its points
ScanPairs ==
    UNION {UNION {{<<EvaluateCurve(FreeForm("curve", s, FALSE, LongWidth,
                                            <<0>>), j),
                     EvaluateCurve(FreeForm("curve", s, FALSE, LongWidth,
                                            <<0>>), i)>> :
                      j \in (i + 1) .. (i + segment_max_length \div s.len + 1)} :
                  i \in 0 .. LoopSteps - 1} : s \in ScannedSteps}
    \cup
    UNION {{<<EvaluateCurve(FreeForm("curve", s, TRUE, LongWidth, <<0>>), j),
              EvaluateCurve(FreeForm("curve", s, TRUE, LongWidth, <<0>>), i)>> :
               i \in 0 .. LoopSteps - 1, j \in 1 .. LoopSteps} :
           s \in ScannedSteps}

\* rs.VectorLength(rs.VectorCreate(to_point, from_point)) for the points of
\* ScanPairs, each computed once
ScanLengths ==
    [pair \in ScanPairs |-> VectorLength(VectorCreate(pair[1], pair[2]))]

\* rs.VectorLength(rs.VectorCreate(to_point, from_point))
Distance(to_point, from_point) ==
    IF <<to_point, from_point>> \in DOMAIN ScanLengths
    THEN ScanLengths[<<to_point, from_point>>]
    ELSE VectorLength(VectorCreate(to_point, from_point))

Catalogue == Circles \cup Arcs \cup Lines \cup Polylines \cup Polycurves
                \cup FreeForms \cup LongForms \cup DriftForms

GcodeLists ==
    {<<>>} \cup {<<o>> : o \in Catalogue}
        \cup UNION {[1 .. n -> Combined] : n \in 2 .. MaxGcodeObjects}

NoCounts == [curve |-> 0, polycurve |-> 0, polyline |-> 0, line |-> 0]

(***************************************************************************)
(* interpret_curves and bounding_box.  A curve of the document is the      *)
(* record of the kernel's answers about it:                                *)
(*   box        the extremes of rs.BoundingBox: min x, max x, min y, max y *)
(*   is_curve   rs.IsCurve                                                 *)
(*   planar     rs.IsCurvePlanar                                           *)
(*   closed     rs.IsCurveClosed                                           *)
(*   closable   "no" when rs.IsCurveClosable answers False, "yes" when it  *)
(*              answers True and rs.CloseCurve returns the closed copy,    *)
(*              "fails" when it answers True and rs.CloseCurve returns None *)
(*   kinds      the tests among rs.IsCircle, rs.IsArc, rs.IsEllipse,       *)
(*              rs.IsPolyCurve, rs.IsLine, rs.IsPolyline that answer True  *)
(*   area       rs.CurveArea(obj)[0]                                       *)
(*   length     rs.CurveLength(obj)                                        *)
(* and its start, end and centre points.  Lengths are in units of          *)
(* 0.0001 mm.                                                              *)
(***************************************************************************)
BlankCurve ==
    [guid |-> 0, box |-> <<0, 0, 0, 0>>, is_curve |-> TRUE, planar |-> TRUE,
     closed |-> FALSE, closable |-> "no", kinds |-> {"line"}, area |-> 0,
     start_point |-> Origin, end_point |-> Origin, center_point |-> Origin,
     length |-> 0]

\* "return False" of bounding_box, among the returned tuples
NoBox == <<>>

\* bounding_box with the envelope's border counted as outside
bounding_box_open(obj) ==
    IF \/ obj.box[1] <= 0
       \/ obj.box[2] >= BOUNDS_MAX_X
       \/ obj.box[3] <= 0
       \/ obj.box[4] >= BOUNDS_MAX_Y
    THEN NoBox
    ELSE obj.box

\* lines 668-678: False when a side of the box is outside the envelope
bounding_box(obj) ==
    IF \/ obj.box[1] < 0
       \/ obj.box[2] > BOUNDS_MAX_X
       \/ obj.box[3] < 0
       \/ obj.box[4] > BOUNDS_MAX_Y
    THEN NoBox
    ELSE obj.box

\* the guid of the copy rs.CloseCurve makes of the curve guid
CopyOffset == 100

\* rs.CloseCurve(obj): the closed copy answers as the curve does, but for
\* its guid and rs.IsCurveClosed
CloseCurve(obj) ==
    [obj EXCEPT !.guid = @ + CopyOffset, !.closed = TRUE]

\* lines 446-455: the curve the rest of the loop body works on
CurveToDescribe(obj) ==
    IF ~obj.closed /\ obj.closable = "yes" THEN CloseCurve(obj) ELSE obj

\* lines 448-455: curve_closed
CurveClosed(obj) == obj.closed \/ obj.closable # "no"

\* lines 458-478: the first test that answers True names the type
CurveType(obj) ==
    IF "circle" \in obj.kinds THEN "circle"
    ELSE IF "arc" \in obj.kinds THEN "arc"
    ELSE IF "ellipse" \in obj.kinds THEN "ellipse"
    ELSE IF "polycurve" \in obj.kinds THEN "polycurve"
    ELSE IF "line" \in obj.kinds THEN "line"
    ELSE IF "polyline" \in obj.kinds THEN "polyline"
    ELSE "curve"

\* lines 458-478: center_point, None (NoPoint) but for circle, arc, ellipse
CenterPoint(obj) ==
    IF CurveType(obj) \in {"circle", "arc", "ellipse"}
    THEN obj.center_point
    ELSE NoPoint

\* class CurveObject, lines 128-156
CurveObject(guid, curve_type, curve_closed, curve_area, start_point, end_point, center_point, curve_bounding_box) ==
    [guid |-> guid, curve_type |-> curve_type, closed |-> curve_closed,
     area |-> curve_area, start_point |-> start_point,
     end_point |-> end_point, center_point |-> center_point,
     bounding_box |-> curve_bounding_box]

\* lines 446-493: the CurveObject made of a valid curve; the bounding box is
\* that of the curve as it was given
Describe(obj) ==
    LET curve == CurveToDescribe(obj)
    IN  CurveObject(curve.guid, CurveType(curve), CurveClosed(obj),
                    IF CurveClosed(obj) THEN curve.area ELSE NoArea,
                    curve.start_point, curve.end_point, CenterPoint(curve),
                    bounding_box(obj))

\* the local variables of interpret_curves: error names the exception that
\* ended it, ret what it returned ("triple" or None)
NoInterpret ==
    [object_guid |-> <<>>, index |-> 0, curve_object_list |-> <<>>,
     objects_out_of_bounds |-> 0, objects_skipped |-> 0,
     error |-> None, ret |-> ""]

\* the body with the planarity test made on every curve, also on one that is
\* out of bounds
InterpretObjectEveryTest(obj, st) ==
    LET counted ==
            IF obj.planar THEN st
            ELSE [st EXCEPT !.objects_skipped = @ + 1]
    IN  IF bounding_box(obj) = NoBox
        THEN [counted EXCEPT !.objects_out_of_bounds = @ + 1]
        ELSE IF ~obj.planar THEN counted
        ELSE IF ~obj.closed /\ obj.closable = "fails"
        THEN [st EXCEPT !.error = "ValueError"]
        ELSE [st EXCEPT !.curve_object_list = Append(@, Describe(obj))]

\* lines 421-495: the body of "for obj in object_guid".  A closable curve
\* that rs.CloseCurve returns None for makes rs.IsCircle(None) raise ValueError.
InterpretObject(obj, st) ==
    IF bounding_box(obj) = NoBox
    THEN [st EXCEPT !.objects_out_of_bounds = @ + 1]
    ELSE IF ~obj.planar
    THEN [st EXCEPT !.objects_skipped = @ + 1]
    ELSE IF ~obj.closed /\ obj.closable = "fails"
    THEN [st EXCEPT !.error = "ValueError"]
    ELSE [st EXCEPT !.curve_object_list = Append(@, Describe(obj))]

RECURSIVE InterpretLoop(_, _)
\* the loop from st.index on, run to its end or to the exception
InterpretLoop(objects, st) ==
    IF st.index > Len(objects) \/ st.error # None THEN st
    ELSE InterpretLoop(objects,
                       [InterpretObject(objects[st.index], st)
                            EXCEPT !.index = @ + 1])

\* interpret_curves(object_guid) as a whole: None for the empty list
interpret_curves(object_guid) ==
    IF object_guid = <<>>
    THEN [NoInterpret EXCEPT !.ret = None]
    ELSE LET st == InterpretLoop(object_guid,
                       [NoInterpret EXCEPT !.object_guid = object_guid,
                                           !.index = 1])
         IN  IF st.error # None THEN st ELSE [st EXCEPT !.ret = "triple"]

(***************************************************************************)
(* The inputs of interpret_curves: an envelope of 4 mm by 3 mm, or the     *)
(* 0 by 0 the module starts with, and curves inside it, touching its       *)
(* border, and beyond each of its sides.                                   *)
(***************************************************************************)
Envelopes == {<<0, 0>>, <<40000, 30000>>}

InsideBox == <<10000, 20000, 10000, 20000>>

TouchingBox == <<0, 40000, 0, 30000>>

OutsideBoxes ==
    {<<-1, 20000, 10000, 20000>>, <<10000, 40001, 10000, 20000>>,
     <<10000, 20000, -1, 20000>>, <<10000, 20000, 10000, 30001>>}

Boxed(box) ==
    [BlankCurve EXCEPT !.box = box,
                       !.start_point = <<box[1], box[3]>>,
                       !.end_point = <<box[2], box[4]>>,
                       !.length = (box[2] - box[1]) + (box[4] - box[3])]

\* the curves a list is drawn from
Curves ==
    {Boxed(b) : b \in {InsideBox, TouchingBox} \cup OutsideBoxes}
    \cup
    {[Boxed(InsideBox) EXCEPT !.planar = FALSE],
     [Boxed(<<10000, 40001, 10000, 20000>>) EXCEPT !.planar = FALSE],
     [Boxed(InsideBox) EXCEPT !.closed = TRUE, !.kinds = {"circle", "ellipse"},
                              !.area = 7, !.end_point = <<10000, 10000>>],
     [Boxed(TouchingBox) EXCEPT !.closable = "yes", !.kinds = {"polyline"},
                                !.area = 12],
     [Boxed(InsideBox) EXCEPT !.closable = "fails", !.kinds = {}]}

\* the curves of a list carry their position in it as guid
Numbered(curves) ==
    [i \in DOMAIN curves |-> [curves[i] EXCEPT !.guid = i]]

CurveLists ==
    {Numbered(l) : l \in UNION {[1 .. n -> Curves] : n \in 0 .. MaxCurves}}

(***************************************************************************)
(* The numbers of run_script's time estimate.  The program runs on Python  *)
(* 2: "/" between two ints is the floor of the quotient, between a float   *)
(* and an int the double nearest to the quotient.  A number is a double    *)
(* with the mark of its type; the ints of the program are exact as         *)
(* doubles.                                                                *)
(***************************************************************************)
Py(float, d) == [float |-> float, sign |-> d.sign, m |-> d.m, e |-> d.e]

PyInt(n) == Py(FALSE, FloatOfInt(n))

PyFloat(d) == Py(TRUE, d)

\* a + b
PyAdd(a, b) ==
    IF ~a.float /\ ~b.float THEN PyInt(FloatInt(a) + FloatInt(b))
    ELSE PyFloat(FloatAdd(a, b))

\* a * b
PyMultiply(a, b) ==
    IF ~a.float /\ ~b.float THEN PyInt(FloatInt(a) * FloatInt(b))
    ELSE PyFloat(FloatMul(a, b))

\* a division that drops the fraction of every quotient
PyFloorDivide(a, b) ==
    IF ~a.float /\ ~b.float THEN PyInt(FloatInt(a) \div FloatInt(b))
    ELSE PyFloat(FloatOfInt(FloatInt(FloatDivInt(a, FloatInt(b)))))

\* a / b for b a positive int, as the speeds are
PyDivide(a, b) ==
    IF ~a.float /\ ~b.float THEN PyInt(FloatInt(a) \div FloatInt(b))
    ELSE PyFloat(FloatDivInt(a, FloatInt(b)))

RECURSIVE ParseInt(_)
\* int(s) for s a string of decimal digits, the way the server's profile
\* gives a speed
ParseInt(digits) ==
    IF digits = <<>> THEN 0
    ELSE 10 * ParseInt(SubSeq(digits, 1, Len(digits) - 1))
         + digits[Len(digits)]

\* line 111
_G00_SPEED == 45

\* line 112
_ESTIMATE_MODIFIER == 1

(***************************************************************************)
(* run_script.  The document is the list of its layers, each a name and    *)
(* the kernel objects on it, and whether 'SelDup' finds duplicates; the    *)
(* server's profile is the envelope and the list of materials.  Message    *)
(* boxes answer 6 (yes) or 7 (no), a prompt for a string answers one of    *)
(* its options, nothing ('') or None when it is cancelled.  The layers     *)
(* hold lines, whose gcode and lengths gcode_from_objects gives at once;   *)
(* its other branches are followed in SpecGcode.                           *)
(***************************************************************************)
\* the two passes of the run, each with the layer get_layer_name finds for it
Layers == {"engrave", "cut"}

\* line 108
_CUTTING_LAYER_DEFAULT_NAME == <<"c", "u", "t">>

\* line 109
_ENGRAVING_LAYER_DEFAULT_NAME == <<"e", "n", "g", "r", "a", "v", "e">>

UpperCase ==
    <<"A", "B", "C", "D", "E", "F", "G", "H", "I", "J", "K", "L", "M",
      "N", "O", "P", "Q", "R", "S", "T", "U", "V", "W", "X", "Y", "Z">>

LowerCase ==
    <<"a", "b", "c", "d", "e", "f", "g", "h", "i", "j", "k", "l", "m",
      "n", "o", "p", "q", "r", "s", "t", "u", "v", "w", "x", "y", "z">>

\* text.lower()
Lower(text) ==
    [i \in DOMAIN text |->
        IF \E k \in DOMAIN UpperCase : UpperCase[k] = text[i]
        THEN LowerCase[CHOOSE k \in DOMAIN UpperCase : UpperCase[k] = text[i]]
        ELSE text[i]]

\* 'None', the option added to the layers the user can choose from
NoneOption == <<"N", "o", "n", "e">>

\* lines 304-316: fixed_string_layers when no layer has the name looked
\* for, every layer.replace(' ', '_') and 'None'
FixedStringLayers(document_layers) ==
    [i \in DOMAIN document_layers |->
        [k \in DOMAIN document_layers[i] |->
            IF document_layers[i][k] = " " THEN "_"
            ELSE document_layers[i][k]]]
        \o <<NoneOption>>

\* what rs.GetString can answer: an option, '', or None
Answers(document_layers) ==
    Range(FixedStringLayers(document_layers)) \cup {<<>>, NoString}

\* get_layer_name(layer_name), lookup_layer being the answer of the prompt:
\* ret is the layer's name or NoString for None, error the exception raised
get_layer_name(layer_name, document_layers, lookup_layer) ==
    LET other == IF layer_name = _CUTTING_LAYER_DEFAULT_NAME
                 THEN _ENGRAVING_LAYER_DEFAULT_NAME
                 ELSE _CUTTING_LAYER_DEFAULT_NAME
        named == {i \in DOMAIN document_layers :
                    Lower(document_layers[i]) = Lower(layer_name)}
        fixed_string_layers == FixedStringLayers(document_layers)
        index == CHOOSE i \in DOMAIN fixed_string_layers :
                    /\ fixed_string_layers[i] = lookup_layer
                    /\ \A k \in 1 .. i - 1 :
                          fixed_string_layers[k] # lookup_layer
        Return(name) == [ret |-> name, error |-> None]
    IN  IF /\ Len(document_layers) = 1
           /\ Lower(document_layers[1]) = Lower(layer_name)
        THEN Return(document_layers[1])
        ELSE IF /\ Len(document_layers) = 1
                /\ Lower(document_layers[1]) = Lower(other)
        THEN Return(NoString)
        ELSE IF document_layers = <<>>
        THEN Return(NoString)
        ELSE IF named # {}
        THEN Return(document_layers[Min(named)])
        ELSE IF lookup_layer = NoneOption
        THEN Return(NoString)
        ELSE IF lookup_layer \in Range(document_layers)
        THEN Return(lookup_layer)
        ELSE IF lookup_layer \in Range(fixed_string_layers)
        THEN Return(document_layers[index])
        ELSE [ret |-> NoString, error |-> "ValueError"]

\* server_data['Max_X'], server_data['Max_Y']: 1300 mm by 900 mm
Max_X == 1300 * UnitsPerMm

Max_Y == 900 * UnitsPerMm

\* server_data['Materials']: the speeds are decimal strings
Materials ==
    <<[MaterialName |-> <<"M", "D", "F">>, response |-> 7,
       EngravingSpeed |-> <<5, 0>>, CuttingSpeed |-> <<7>>],
      [MaterialName |-> Akryl \o <<" ", "3", "m", "m">>, response |-> 7,
       EngravingSpeed |-> <<5, 0>>, CuttingSpeed |-> <<1, 2>>]>>

NoProfile ==
    [MaterialName |-> NoString, response |-> 7,
     EngravingSpeed |-> <<>>, CuttingSpeed |-> <<>>]

\* what get_objects_from_layer and the calls on a layer's list leave behind
NoLength == PyInt(0)

NoRun ==
    [document |-> <<>>,
     layer_name |-> [l \in Layers |-> NoString],
     layers |-> [l \in Layers |-> <<>>],
     selected |-> [l \in Layers |-> FALSE],
     duplicates |-> FALSE,
     objects |-> [l \in Layers |-> <<>>],
     found |-> [l \in Layers |-> FALSE],
     interpreted |-> [l \in Layers |-> NoInterpret],
     material_data |-> NoProfile,
     sorted |-> [l \in Layers |-> <<>>],
     gcode |-> [l \in Layers |-> <<>>],
     lines |-> [l \in Layers |-> 0],
     length_active |-> [l \in Layers |-> NoLength],
     length_passive |-> [l \in Layers |-> NoLength],
     duration |-> [l \in Layers |-> NoLength],
     duration_total |-> NoLength,
     gcode_final |-> <<>>,
     final_file |-> <<>>,
     log |-> <<>>,
     exit |-> -1]

\* an entry of the log: a message box shown, or a call of interpret_curves
\* returned, for a layer ("both" for the message after classification)
Event(what, layer) == [what |-> what, layer |-> layer]

\* get_objects_from_layer finding no curve that is not planar
NonPlanarNone(objects) == <<>>

\* lines 380-384: non_planar
NonPlanar(objects) ==
    SelectSeq(objects, LAMBDA obj : obj.is_curve /\ ~obj.planar)

\* lines 380-384: curve_object_list
Planar(objects) ==
    SelectSeq(objects, LAMBDA obj : obj.is_curve /\ obj.planar)

\* get_objects_from_layer(layer_name): ret is None, "False" or "list", asked
\* the message boxes shown
get_objects_from_layer(selected, objects, duplicates, dup_response, planar_response) ==
    LET dup_asked == IF duplicates THEN <<"duplicates">> ELSE <<>>
        planar_asked == IF Len(NonPlanar(objects)) > 0
                        THEN <<"non_planar">> ELSE <<>>
    IN  IF ~selected
        THEN [ret |-> None, list |-> <<>>, asked |-> <<>>]
        ELSE IF duplicates /\ dup_response = 6
        THEN [ret |-> "False", list |-> <<>>, asked |-> dup_asked]
        ELSE IF objects = <<>>
        THEN [ret |-> None, list |-> <<>>, asked |-> dup_asked \o <<"no_objects">>]
        ELSE IF Len(NonPlanar(objects)) > 0 /\ planar_response = 6
        THEN [ret |-> "False", list |-> <<>>,
              asked |-> dup_asked \o planar_asked]
        ELSE [ret |-> "list", list |-> Planar(objects),
              asked |-> dup_asked \o planar_asked]

\* the kernel's curve behind a descriptor's guid
KernelCurve(guid, document) ==
    CHOOSE curve \in Range(document) :
        guid \in {curve.guid, curve.guid + CopyOffset}

\* rs.CurveLength(guid), in millimetres
CurveLength(guid, document) ==
    PyFloat(Coordinate(KernelCurve(guid, document).length))

RECURSIVE LineBlocks(_)
\* lines 1123-1306 for a list of lines: the text
LineBlocks(descriptors) ==
    IF descriptors = <<>> THEN <<>>
    ELSE LineBlock(Head(descriptors)) \o LineBlocks(Tail(descriptors))

RECURSIVE ActiveLength(_, _)
\* active_length: 0 and rs.CurveLength(obj.guid) added for each descriptor
ActiveLength(descriptors, document) ==
    IF descriptors = <<>> THEN PyInt(0)
    ELSE PyAdd(ActiveLength(SubSeq(descriptors, 1, Len(descriptors) - 1),
                            document),
               CurveLength(descriptors[Len(descriptors)].guid, document))

RECURSIVE PassiveLength(_)
\* passive_length: 0 and, for each descriptor, the distance of its start
\* point from the end point of the one before, or from the origin
PassiveLength(descriptors) ==
    IF descriptors = <<>> THEN PyInt(0)
    ELSE LET n == Len(descriptors)
             previous_position ==
                 IF n = 1 THEN Origin ELSE descriptors[n - 1].end_point
         IN  PyAdd(PassiveLength(SubSeq(descriptors, 1, n - 1)),
                   PyFloat(VectorLength(
                               VectorCreate(descriptors[n].start_point,
                                            previous_position))))

\* lines 1529-1587 as far as the sections go: a section's comment, its three
\* setting lines, the layer's text
SectionName(layer) ==
    IF layer = "engrave" THEN "(Engraving commands)" ELSE "(Cutting commands)"

Word(cmd) == Tok(cmd, 0, 0, 0, 0)

Section(layer, text) ==
    <<NL, Word(SectionName(layer)), NL, Word("G97"), NL, Word("G98"), NL,
      Word("G01 F"), NL>> \o text \o <<NL>>

\* lines 1571-1587: the section is added when the layer's gcode is not None
SectionIfAny(layer, found, text) ==
    IF found THEN Section(layer, text) ELSE <<>>

\* str(text): a token for every character
Chars(text) == [i \in DOMAIN text |-> Word(text[i])]

\* str(n) for an int
Number(n) == Tok("int", n, 0, 0, 0)

\* str(datetime.timedelta(seconds=int(d))): days, hours, minutes, seconds
TimeDelta(d) ==
    LET seconds == FloatInt(d)
    IN  Tok("timedelta", seconds \div 86400, (seconds % 86400) \div 3600,
            (seconds % 3600) \div 60, seconds % 60)

\* lines 1529-1567: summary, for the record r of the run and the totals of
\* lines 1447-1448.  The server's name, the document's name and the time
\* of day are tokens of their own.  "if layer_name_<pass>:" gives the line
\* that names the layer, "if <count>:" the line of a count that is not 0,
\* "if gcode_<pass>:" the counts, the length and the time of a pass whose
\* text is neither None nor empty.
Summary(r, total_skipped_objects, total_out_of_bounds) ==
    LET Words(layer) ==
            IF layer = "engrave"
            THEN [selected |-> "Selected engraving layer: ",
                  curve |-> "Engraving curves processed: ",
                  polycurve |-> "Engraving polycurves processed: ",
                  polyline |-> "Engraving polylines processed: ",
                  line |-> "Engraving lines processed: ",
                  length |-> "Total engraving length: ",
                  time |-> "Engraving Time: "]
            ELSE [selected |-> "Selected cutting layer: ",
                  curve |-> "Cutting curves processed: ",
                  polycurve |-> "Cutting polycurves processed: ",
                  polyline |-> "Cutting polylines processed: ",
                  line |-> "Cutting lines processed: ",
                  length |-> "Total cutting length: ",
                  time |-> "Cutting Time: "]
        Selected(layer) ==
            IF r.layer_name[layer] \in {NoString, <<>>} THEN <<>>
            ELSE <<Word(Words(layer).selected)>>
                 \o Chars(r.layer_name[layer]) \o <<NL>>
        Count(word, count) ==
            IF count = 0 THEN <<>> ELSE <<Word(word), Number(count), NL>>
        counts(layer) == [NoCounts EXCEPT !.line = r.lines[layer]]
        Pass(layer) ==
            IF r.gcode[layer] = <<>> THEN <<>>
            ELSE Count(Words(layer).curve, counts(layer).curve)
                 \o Count(Words(layer).polycurve, counts(layer).polycurve)
                 \o Count(Words(layer).polyline, counts(layer).polyline)
                 \o Count(Words(layer).line, counts(layer).line)
                 \o <<Word(Words(layer).length),
                       Number(FloatInt(r.length_active[layer])),
                       Word(" mm"), NL,
                       Word(Words(layer).time),
                       TimeDelta(r.duration[layer]), NL, NL>>
    IN  <<Word("Settings server: "), NL, Word("server_data['Name']"), NL, NL,
          Word("Original Rhino file name: "), Word("rs.DocumentName()"), NL>>
        \o Selected("engrave")
        \o Selected("cut")
        \o <<Word("Generation date and time: "), Word("datetime.now()"), NL,
              Word("Selected material profile: ")>>
        \o Chars(r.material_data.MaterialName) \o <<NL, NL>>
        \o Pass("engrave")
        \o Pass("cut")
        \o <<Word("Skipped objects: "), Number(total_skipped_objects), NL,
              Word("Skipped out of bounds objects: "),
              Number(total_out_of_bounds), NL, NL,
              Word("Total estimated time to run this file: "),
              TimeDelta(r.duration_total), NL, NL,
              Word("Script 2.0 by Andreas Weibye (AB)"), NL,
              Word("NTNU Trondheim - www.ntnu.edu")>>

\* lines 1589-1595: gcode_start, the summary as a comment and the start-up
\* commands
GcodeStart(r, summary) ==
    <<Word("("), NL>> \o summary \o <<NL, Word(")"), NL, NL,
      Word("(Startup commands)"), NL,
      Word("server_data['Start-up']"), NL,
      Word("G00 COriginalFilename-"), Word("rs.DocumentName()"), NL,
      Word("G00 CLaserProfile-")>>
    \o Chars(r.material_data.MaterialName)
    \o <<NL, Word("G00 CTimeEstimate-"), TimeDelta(r.duration_total), NL>>

\* line 1597: gcode_end
GcodeEnd == <<Word("(Shutdown commands)"), NL, Word("server_data['End']")>>

\* lines 1569-1600: gcode_final = gcode_start + gcode_mid + gcode_end
Concatenate(r, summary) ==
    GcodeStart(r, summary)
    \o SectionIfAny("engrave", r.found["engrave"], r.gcode["engrave"])
    \o SectionIfAny("cut", r.found["cut"], r.gcode["cut"])
    \o GcodeEnd

\* lines 1521-1522: the duration of one pass at the given speed
Duration(length_active, length_passive, speed) ==
    PyAdd(PyDivide(length_active, PyInt(ParseInt(speed))),
          PyDivide(length_passive, PyInt(_G00_SPEED)))

(***************************************************************************)
(* The documents run_script is given.                                      *)
(***************************************************************************)
\* 1000 mm of line starting 200 mm from the origin, 0.4 mm of line starting
\* 0.5 mm from the origin, a line that leaves the envelope by one model unit,
\* and a curve that is not planar
LongLine ==
    [Boxed(<<200 * UnitsPerMm, 1200 * UnitsPerMm, 0, 0>>)
        EXCEPT !.length = 1000 * UnitsPerMm]

ShortLine ==
    [Boxed(<<3000, 3000, 0, 4000>>)
        EXCEPT !.start_point = <<3000, 4000>>, !.end_point = <<3000, 0>>]

OutsideLine == Boxed(<<10000, Max_X + 1, 0, 0>>)

Warped == [Boxed(<<3000, 9000, 0, 4000>>) EXCEPT !.planar = FALSE, !.kinds = {}]

\* 4 mm of line starting 41.4 mm from the origin: 4.0 / 50 + 41.4 / 45 is
\* the double below 1
Line35 == Boxed(<<414000, 454000, 0, 0>>)

\* lines of 0.7 mm, 0.2 mm and 0.1 mm one after the other: 0.7 + 0.2 + 0.1
\* is the double below 1
Tenths ==
    <<Boxed(<<0, 7000, 0, 0>>), Boxed(<<7000, 9000, 0, 0>>),
      Boxed(<<9000, 10000, 0, 0>>)>>

LayerObjects == {LongLine, ShortLine, OutsideLine, Warped}

\* the curves numbered with the guids first + 1, first + 2, ...
NumberedFrom(curves, first) ==
    [i \in DOMAIN curves |-> [curves[i] EXCEPT !.guid = first + i]]

LayerLists ==
    UNION {[1 .. n -> LayerObjects] : n \in 0 .. MaxLayerObjects}

\* the layer 'Cut', and 'Layer 01', 'Layer 02' that have to be chosen
CutCapital == <<"C", "u", "t">>

Layer01 == <<"L", "a", "y", "e", "r", " ", "0", "1">>

Layer02 == <<"L", "a", "y", "e", "r", " ", "0", "2">>

\* a layer of the document; the objects of the second layer carry guids
\* after those of the first
Layer(name, curves, first) ==
    [name |-> name, objects |-> NumberedFrom(curves, first)]

FewLists == {<<>>, <<LongLine>>, <<ShortLine, Warped>>, <<Line35>>, Tenths}

\* no layer; one layer; 'engrave' and 'Cut'; 'Layer 01' with 'Layer 02' or
\* with 'Cut'
Documents ==
    {<<>>}
    \cup {<<Layer(name, e, 0)>> :
             name \in {_ENGRAVING_LAYER_DEFAULT_NAME, CutCapital, Layer01},
             e \in LayerLists}
    \cup {<<Layer(_ENGRAVING_LAYER_DEFAULT_NAME, e, 0),
             Layer(CutCapital, c, MaxLayerObjects + 1)>> :
             e \in LayerLists, c \in LayerLists}
    \cup {<<Layer(Layer01, e, 0), Layer(name, c, MaxLayerObjects + 1)>> :
             name \in {Layer02, CutCapital}, e \in FewLists, c \in FewLists}

\* rs.LayerNames()
LayerNames(document) == [i \in DOMAIN document |-> document[i].name]

\* rs.ObjectsByLayer(layer_name)
ObjectsByLayer(document, layer_name) ==
    IF \E i \in DOMAIN document : document[i].name = layer_name
    THEN document[CHOOSE i \in DOMAIN document :
                     document[i].name = layer_name].objects
    ELSE <<>>

(***************************************************************************)
(* The parts of the state a component does not use.                        *)
(***************************************************************************)
QuantIdle == q_in = None /\ q_out = None /\ q_again = None

ArcIdle == arc_obj = None /\ arc_ret = None

SortIdle ==
    /\ object_list = <<>>
    /\ material_data = NoMaterial
    /\ containment = {}
    /\ complete_list = <<>>
    /\ discovered_complete = <<>>
    /\ sorted_list = <<>>
    /\ visits = <<>>

GcodeIdle ==
    /\ g_objects = <<>>
    /\ g_index = 0
    /\ gcode = <<>>
    /\ processed = NoCounts
    /\ cc = NoFrame

ScriptIdle ==
    /\ BOUNDS_MAX_X = 0
    /\ BOUNDS_MAX_Y = 0
    /\ ic = NoInterpret
    /\ run = NoRun

(***************************************************************************)
(* Quantization on its own.                                                *)
(***************************************************************************)
InitQuant ==
    /\ pc = "quantize"
    /\ q_in \in QuantInputs
    /\ q_out = None
    /\ q_again = None
    /\ ArcIdle
    /\ SortIdle
    /\ GcodeIdle
    /\ ScriptIdle

\* Decimal(x).quantize(ROUNDING) on a coordinate
QuantizeCoordinate ==
    /\ pc = "quantize"
    /\ q_out' = Quantize(q_in)
    /\ pc' = "quantized"
    /\ UNCHANGED <<q_in, q_again, arc_vars, sort_vars, gcode_vars, script_vars>>

\* the quantized value quantized again
QuantizeAgain ==
    /\ pc = "quantized"
    /\ q_again' = Quantize(q_out)
    /\ pc' = "requantized"
    /\ UNCHANGED <<q_in, q_out, arc_vars, sort_vars, gcode_vars, script_vars>>

NextQuant == QuantizeCoordinate \/ QuantizeAgain

SpecQuant == InitQuant /\ [][NextQuant]_vars

(***************************************************************************)
(* arc_calc on its own.                                                    *)
(***************************************************************************)
InitArc ==
    /\ pc = "arc_calc"
    /\ arc_obj \in ArcInputs
    /\ arc_ret = None
    /\ QuantIdle
    /\ SortIdle
    /\ GcodeIdle
    /\ ScriptIdle

ArcCalc ==
    /\ pc = "arc_calc"
    /\ arc_ret' = arc_calc(arc_obj)
    /\ pc' = "arc_done"
    /\ UNCHANGED <<arc_obj, quant_vars, sort_vars, gcode_vars, script_vars>>

NextArc == ArcCalc

SpecArc == InitArc /\ [][NextArc]_vars

(***************************************************************************)
(* sort_advanced: one action for the preparation of the working list, one  *)
(* for each round of the while loop, one for the return.                   *)
(***************************************************************************)
Init ==
    /\ pc = "sort_advanced"
    /\ object_list \in InputLists
    /\ containment \in Containments(object_list)
    /\ material_data \in MaterialInputs
    /\ complete_list = <<>>
    /\ discovered_complete = <<>>
    /\ sorted_list = <<>>
    /\ visits = <<>>
    /\ QuantIdle
    /\ ArcIdle
    /\ GcodeIdle
    /\ ScriptIdle

\* lines 512-578
SortPrepare ==
    /\ pc = "sort_advanced"
    /\ complete_list' = CompleteList(object_list, material_data)
    /\ discovered_complete' = <<>>
    /\ pc' = "sort_loop"
    /\ UNCHANGED <<object_list, material_data, containment, sorted_list,
                   visits, quant_vars, arc_vars, gcode_vars, script_vars>>

\* lines 581-586: one round of the while loop
SortRound ==
    /\ pc = "sort_loop"
    /\ Len(complete_list) > 0
    /\ LET discovered ==
            sort_depth_first(complete_list, complete_list[1], <<>>)
       IN  IF CanRemoveAll(complete_list, discovered)
           THEN /\ complete_list' = RemoveAll(complete_list, discovered)
                /\ discovered_complete' = discovered_complete \o discovered
                /\ visits' = visits \o
                        WalkVisits(complete_list, complete_list[1], <<>>)
                /\ pc' = "sort_loop"
           ELSE /\ pc' = "ValueError"
                /\ UNCHANGED <<complete_list, discovered_complete, visits>>
    /\ UNCHANGED <<object_list, material_data, containment, sorted_list,
                   quant_vars, arc_vars, gcode_vars, script_vars>>

\* lines 588-591
SortReturn ==
    /\ pc = "sort_loop"
    /\ Len(complete_list) = 0
    /\ sorted_list' = Reverse(discovered_complete)
    /\ pc' = "sort_done"
    /\ UNCHANGED <<object_list, material_data, containment, complete_list,
                   discovered_complete, visits, quant_vars, arc_vars,
                   gcode_vars, script_vars>>

Next == SortPrepare \/ SortRound \/ SortReturn

Spec == Init /\ [][Next]_vars

\* sort_advanced has not ended
SortRunning == pc \in {"sort_advanced", "sort_loop"}

\* a step of sort_advanced can be taken exactly when it has not ended
SortRunningIsEnabled == SortRunning <=> ENABLED <<Next>>_vars

\* sort_advanced with any containment answers, and the interpreter running
\* on: a step that can be taken is taken.  The condition is the weak
\* fairness of Next, WF_vars(Next), with ENABLED <<Next>>_vars written as
\* the state predicate it is equal to (SortRunningIsEnabled).
InitCyclic ==
    /\ pc = "sort_advanced"
    /\ object_list \in CyclicLists
    /\ containment \in AnyContainments(object_list)
    /\ material_data \in MaterialInputs
    /\ complete_list = <<>>
    /\ discovered_complete = <<>>
    /\ sorted_list = <<>>
    /\ visits = <<>>
    /\ QuantIdle
    /\ ArcIdle
    /\ GcodeIdle
    /\ ScriptIdle

SpecCyclic ==
    /\ InitCyclic
    /\ [][Next]_vars
    /\ ([]<>(~SortRunning) \/ []<><<Next>>_vars)

(***************************************************************************)
(* gcode_from_objects(object_list), with curve_calc_to_lines step by step. *)
(* The state holds the text and the four processed_* counters; the sums    *)
(* active_length and passive_length are floating-point totals of kernel    *)
(* lengths that the text does not depend on, and are left out.             *)
(***************************************************************************)
InitGcode ==
    /\ pc = "gcode_loop"
    /\ g_objects \in GcodeLists
    /\ g_index = 1
    /\ gcode = <<>>
    /\ processed = NoCounts
    /\ cc = NoFrame
    /\ QuantIdle
    /\ ArcIdle
    /\ SortIdle
    /\ ScriptIdle

\* "for obj in object_list" is at a descriptor of the given curve types
AtObject(types) ==
    /\ pc = "gcode_loop"
    /\ g_index <= Len(g_objects)
    /\ g_objects[g_index].curve_type \in types

\* a branch that writes its whole block at once, and counts it
WriteBlock(block, counter) ==
    /\ gcode' = gcode \o block
    /\ processed' = [processed EXCEPT ![counter] = @ + 1]
    /\ g_index' = g_index + 1
    /\ UNCHANGED <<pc, g_objects, cc, quant_vars, arc_vars, sort_vars, script_vars>>

\* the circle branch; "for sub in sub_curves" raises TypeError when
\* rs.SplitCurve returned None
GcodeCircle ==
    /\ AtObject({"circle"})
    /\ IF SplitFails(g_objects[g_index])
       THEN /\ pc' = "TypeError"
            /\ UNCHANGED <<gcode_vars, quant_vars, arc_vars, sort_vars,
                           script_vars>>
       ELSE WriteBlock(CircleBlock(g_objects[g_index]), "curve")

GcodeArc ==
    /\ AtObject({"arc"})
    /\ WriteBlock(ArcBlock(g_objects[g_index]), "curve")

GcodePolycurve ==
    /\ AtObject({"polycurve"})
    /\ WriteBlock(PolycurveBlock(g_objects[g_index]), "polycurve")

GcodePolyline ==
    /\ AtObject({"polyline"})
    /\ WriteBlock(PolylineBlock(g_objects[g_index]), "polyline")

GcodeLine ==
    /\ AtObject({"line"})
    /\ WriteBlock(LineBlock(g_objects[g_index]), "line")

\* the ellipse and the curve branch: gcode += curve_calc_to_lines(obj)
GcodeCurve ==
    /\ AtObject({"ellipse", "curve"})
    /\ cc' = [NoFrame EXCEPT !.obj = g_objects[g_index]]
    /\ pc' = "curve_calc_to_lines"
    /\ UNCHANGED <<g_objects, g_index, gcode, processed,
                   quant_vars, arc_vars, sort_vars, script_vars>>

\* curve_calc_to_lines up to its "while next_parameter < curve_domain[1]"
LinesPreScan ==
    /\ pc = "curve_calc_to_lines"
    /\ LET samples == PreScan(cc.obj)
       IN  cc' = [cc EXCEPT
                    !.gcode = BlockHeader(cc.obj),
                    !.scanned = samples # {},
                    !.curve_curvature_min =
                        IF samples = {} THEN 0 ELSE Min(samples),
                    !.curve_curvature_max =
                        IF samples = {} THEN 0 ELSE Max(samples),
                    !.curve_domain = CurveDomain(cc.obj),
                    !.next_parameter = CurveDomain(cc.obj)[1],
                    !.current_point = cc.obj.start_point]
    /\ pc' = "lines_walk"
    /\ UNCHANGED <<g_objects, g_index, gcode, processed,
                   quant_vars, arc_vars, sort_vars, script_vars>>

\* the head of the outer loop: the segment length for the curvature at
\* next_parameter.  No sample taken (a curve shorter than 1 mm) leaves the
\* extremes None, equal extremes divide by zero.
LinesSegment ==
    /\ pc = "lines_walk"
    /\ FloatLess(cc.next_parameter, cc.curve_domain[2])
    /\ IF ~cc.scanned
       THEN pc' = "TypeError" /\ cc' = cc
       ELSE IF cc.curve_curvature_max = cc.curve_curvature_min
       THEN pc' = "ZeroDivisionError" /\ cc' = cc
       ELSE /\ pc' = "lines_scan"
            /\ LET curve_curvature ==
                        CurveCurvature(cc.obj,
                                       cc.turns * scan_resolution, 1)
                    segment_length ==
                        SegmentLength(curve_curvature,
                                      cc.curve_curvature_min,
                                      cc.curve_curvature_max)
               IN  cc' = [cc EXCEPT
                            !.length = FloatZero,
                            !.segment_length = segment_length,
                            !.targets = Append(@, <<curve_curvature,
                                                    segment_length>>)]
    /\ UNCHANGED <<g_objects, g_index, gcode, processed,
                   quant_vars, arc_vars, sort_vars, script_vars>>

\* the turns of the scan as the state keeps them.  On a closed curve the
\* scan can go round for ever; far past the domain nothing but the place on
\* the curve depends on the parameter, so there the state keeps it one round
\* (LoopSteps scan steps) back.
Folded(obj, k) ==
    IF obj.loop /\ k > MaxScan THEN k - LoopSteps ELSE k

\* one turn of "while length < segment_length"; the domain is not looked at
LinesScan ==
    /\ pc = "lines_scan"
    /\ LengthLess(cc.length, cc.segment_length)
    /\ cc.obj.loop \/ cc.turns < MaxScan
    /\ LET t == FloatAdd(cc.next_parameter, ScanResolution)
           k == cc.turns + 1
           return_point == EvaluateCurve(cc.obj, k)
       IN  cc' = [cc EXCEPT
                    !.next_parameter =
                        IF Folded(cc.obj, k) = k THEN t
                        ELSE Double(cc.obj.domain[1]
                                      + Folded(cc.obj, k) * scan_resolution),
                    !.turns = Folded(cc.obj, k),
                    !.return_point = return_point,
                    !.bound = TRUE,
                    !.length = Distance(return_point, cc.current_point)]
    /\ UNCHANGED <<pc, g_objects, g_index, gcode, processed,
                   quant_vars, arc_vars, sort_vars, script_vars>>

\* after the scan: break when past the domain, else keep the point the
\* segment started at and go on from the point reached
LinesAppend ==
    /\ pc = "lines_scan"
    /\ ~LengthLess(cc.length, cc.segment_length)
    /\ Len(cc.point_list) < MaxScan
    /\ IF FloatLess(cc.curve_domain[2], cc.next_parameter)
       THEN pc' = "lines_break" /\ cc' = cc
       ELSE IF ~cc.bound
       THEN pc' = "UnboundLocalError" /\ cc' = cc
       ELSE /\ pc' = "lines_walk"
            /\ cc' = [cc EXCEPT
                        !.point_list = Append(@, cc.current_point),
                        !.current_point = cc.return_point]
    /\ UNCHANGED <<g_objects, g_index, gcode, processed,
                   quant_vars, arc_vars, sort_vars, script_vars>>

\* the rest of curve_calc_to_lines and of the branch that called it
LinesReturn ==
    /\ \/ pc = "lines_break"
       \/ /\ pc = "lines_walk"
          /\ ~FloatLess(cc.next_parameter, cc.curve_domain[2])
    /\ gcode' = gcode \o cc.gcode \o CutMoves(cc.obj, cc.point_list)
                    \o BlockFooter
    /\ processed' = [processed EXCEPT !.curve = @ + 1]
    /\ g_index' = g_index + 1
    /\ pc' = "gcode_loop"
    /\ UNCHANGED <<g_objects, cc, quant_vars, arc_vars, sort_vars, script_vars>>

\* return gcode, processed_curve, ...
GcodeReturn ==
    /\ pc = "gcode_loop"
    /\ g_index > Len(g_objects)
    /\ pc' = "gcode_done"
    /\ UNCHANGED <<gcode_vars, quant_vars, arc_vars, sort_vars, script_vars>>

NextGcode ==
    \/ GcodeCircle \/ GcodeArc \/ GcodePolycurve \/ GcodePolyline
    \/ GcodeLine \/ GcodeCurve
    \/ LinesPreScan \/ LinesSegment \/ LinesScan \/ LinesAppend
    \/ LinesReturn \/ GcodeReturn

SpecGcode == InitGcode /\ [][NextGcode]_vars

\* curve_calc_to_lines on its own: gcode_from_objects is given one free-form
\* descriptor, and the interpreter keeps running, a step that can be taken
\* is taken
InitLines ==
    /\ pc = "gcode_loop"
    /\ g_objects \in {<<o>> : o \in FreeForms \cup LongForms \cup DriftForms}
    /\ g_index = 1
    /\ gcode = <<>>
    /\ processed = NoCounts
    /\ cc = NoFrame
    /\ QuantIdle
    /\ ArcIdle
    /\ SortIdle
    /\ ScriptIdle

NextLines ==
    \/ GcodeCurve \/ LinesPreScan \/ LinesSegment \/ LinesScan
    \/ LinesAppend \/ LinesReturn

\* a turn of the scan can be taken
ScanRunning ==
    /\ pc = "lines_scan"
    /\ LengthLess(cc.length, cc.segment_length)
    /\ cc.obj.loop \/ cc.turns < MaxScan

ScanRunningIsEnabled == ScanRunning <=> ENABLED <<LinesScan>>_vars

\* The interpreter runs one statement after the other, so in every state at
\* most one step can be taken and the weak fairness of NextLines is that of
\* its steps.  For the turn of the scan it is written with ENABLED
\* <<LinesScan>>_vars as the state predicate it is equal to
\* (ScanRunningIsEnabled).
SpecLines ==
    /\ InitLines
    /\ [][NextLines]_vars
    /\ WF_vars(GcodeCurve \/ LinesPreScan \/ LinesSegment \/ LinesAppend
                    \/ LinesReturn)
    /\ ([]<>(~ScanRunning) \/ []<><<LinesScan>>_vars)

(***************************************************************************)
(* interpret_curves(object_guid), one curve of the list at a time.         *)
(***************************************************************************)
InitInterpret ==
    /\ pc = "interpret_curves"
    /\ \E envelope \in Envelopes :
          /\ BOUNDS_MAX_X = envelope[1]
          /\ BOUNDS_MAX_Y = envelope[2]
    /\ \E object_guid \in CurveLists :
          ic = [NoInterpret EXCEPT !.object_guid = object_guid, !.index = 1]
    /\ run = NoRun
    /\ QuantIdle
    /\ ArcIdle
    /\ SortIdle
    /\ GcodeIdle

\* "if object_guid:" fails for the empty list: return None
InterpretNone ==
    /\ pc = "interpret_curves"
    /\ ic.object_guid = <<>>
    /\ ic' = [ic EXCEPT !.ret = None]
    /\ pc' = "interpret_done"
    /\ UNCHANGED <<BOUNDS_MAX_X, BOUNDS_MAX_Y, run, quant_vars, arc_vars,
                   sort_vars, gcode_vars>>

\* one turn of "for obj in object_guid"
InterpretCurve ==
    /\ pc = "interpret_curves"
    /\ ic.object_guid # <<>>
    /\ ic.index <= Len(ic.object_guid)
    /\ LET st == InterpretObject(ic.object_guid[ic.index], ic)
       IN  /\ ic' = [st EXCEPT !.index = @ + 1]
           /\ pc' = IF st.error # None THEN st.error ELSE pc
    /\ UNCHANGED <<BOUNDS_MAX_X, BOUNDS_MAX_Y, run, quant_vars, arc_vars,
                   sort_vars, gcode_vars>>

\* return curve_object_list, objects_out_of_bounds, objects_skipped
InterpretReturn ==
    /\ pc = "interpret_curves"
    /\ ic.object_guid # <<>>
    /\ ic.index > Len(ic.object_guid)
    /\ ic' = [ic EXCEPT !.ret = "triple"]
    /\ pc' = "interpret_done"
    /\ UNCHANGED <<BOUNDS_MAX_X, BOUNDS_MAX_Y, run, quant_vars, arc_vars,
                   sort_vars, gcode_vars>>

NextInterpret == InterpretNone \/ InterpretCurve \/ InterpretReturn

SpecInterpret == InitInterpret /\ [][NextInterpret]_vars

(***************************************************************************)
(* run_script(), from the fetch of the server's profile to the saved file. *)
(***************************************************************************)
InitRun ==
    /\ pc = "run_script"
    /\ BOUNDS_MAX_X = 0
    /\ BOUNDS_MAX_Y = 0
    /\ ic = NoInterpret
    /\ \E document \in Documents, duplicates \in BOOLEAN :
          run = [NoRun EXCEPT !.document = document,
                              !.duplicates = duplicates]
    /\ QuantIdle
    /\ ArcIdle
    /\ SortIdle
    /\ GcodeIdle

\* what run_script leaves alone
RunFrame == UNCHANGED <<ic, quant_vars, arc_vars, sort_vars, gcode_vars>>

\* lines 1338-1399: the profile is fetched and the envelope set, the layer
\* of each pass is looked for; the run ends with 1 when the server cannot be
\* reached or is offline, the script is out of date, the unit system is
\* refused, or no layer is found or chosen, and with the exception of
\* get_layer_name
RunStartup ==
    /\ pc = "run_script"
    /\ \E startup \in {"ok", "unreachable", "offline", "outdated", "units"},
          lookup_engrave \in Answers(LayerNames(run.document)),
          lookup_cut \in Answers(LayerNames(run.document)) :
          LET engrave == get_layer_name(_ENGRAVING_LAYER_DEFAULT_NAME,
                             LayerNames(run.document), lookup_engrave)
              cut == get_layer_name(_CUTTING_LAYER_DEFAULT_NAME,
                         LayerNames(run.document), lookup_cut)
              layer_name == [l \in Layers |->
                                IF l = "engrave" THEN engrave.ret
                                ELSE cut.ret]
          IN  /\ IF startup \in {"unreachable", "offline"}
                 THEN UNCHANGED <<BOUNDS_MAX_X, BOUNDS_MAX_Y>>
                 ELSE BOUNDS_MAX_X' = Max_X /\ BOUNDS_MAX_Y' = Max_Y
              /\ IF startup # "ok"
                 THEN pc' = "run_done" /\ run' = [run EXCEPT !.exit = 1]
                 ELSE IF engrave.error # None
                 THEN pc' = engrave.error /\ UNCHANGED run
                 ELSE IF cut.error # None
                 THEN /\ pc' = cut.error
                      /\ run' = [run EXCEPT
                                   !.layer_name["engrave"] = engrave.ret]
                 ELSE /\ run' = [run EXCEPT
                                   !.layer_name = layer_name,
                                   !.selected =
                                       [l \in Layers |->
                                           layer_name[l] # NoString],
                                   !.layers =
                                       [l \in Layers |->
                                           ObjectsByLayer(run.document,
                                                          layer_name[l])],
                                   !.exit =
                                       IF \A l \in Layers :
                                             layer_name[l] = NoString
                                       THEN 1 ELSE @]
                      /\ pc' = IF \A l \in Layers : layer_name[l] = NoString
                               THEN "run_done" ELSE "get_engrave"
    /\ RunFrame

\* lines 1401-1409: objects_<layer> = get_objects_from_layer(layer_name);
\* lines 1411-1416: after the cut layer, the run ends with 1 when both
\* results are None
RunGetObjects(layer, next) ==
    /\ \E dup_response \in {6, 7}, planar_response \in {6, 7} :
          LET got == get_objects_from_layer(run.selected[layer],
                         run.layers[layer], run.duplicates,
                         dup_response, planar_response)
              log == run.log \o [i \in DOMAIN got.asked |->
                                    Event(got.asked[i], layer)]
              none == /\ layer = "cut"
                      /\ got.ret = None
                      /\ ~run.found["engrave"]
          IN  /\ run' = [run EXCEPT !.objects[layer] = got.list,
                                    !.found[layer] = (got.ret = "list"),
                                    !.log = log,
                                    !.exit = IF got.ret = "False" THEN 2
                                             ELSE IF none THEN 1 ELSE @]
              /\ pc' = IF got.ret = "False" \/ none THEN "run_done" ELSE next
    /\ UNCHANGED <<BOUNDS_MAX_X, BOUNDS_MAX_Y>>
    /\ RunFrame

RunGetEngrave ==
    /\ pc = "get_engrave"
    /\ RunGetObjects("engrave", "get_cut")

RunGetCut ==
    /\ pc = "get_cut"
    /\ RunGetObjects("cut", "material")

\* lines 1419-1428: the user picks a material, or none and the run ends
RunMaterial ==
    /\ pc = "material"
    /\ \/ /\ run' = [run EXCEPT !.exit = 1]
          /\ pc' = "run_done"
       \/ /\ \E material_name \in DOMAIN Materials :
                run' = [run EXCEPT !.material_data = Materials[material_name]]
          /\ pc' = "interpret_engrave"
    /\ UNCHANGED <<BOUNDS_MAX_X, BOUNDS_MAX_Y>>
    /\ RunFrame

\* lines 1434-1444: objects, out_of_bounds, skipped =
\* interpret_curves(objects_<layer>) when objects_<layer> is not None; the
\* None returned for an empty list cannot be unpacked
RunInterpret(layer, next) ==
    /\ IF ~run.found[layer]
       THEN pc' = next /\ UNCHANGED run
       ELSE LET st == interpret_curves(run.objects[layer])
            IN  IF st.error # None
                THEN pc' = st.error /\ UNCHANGED run
                ELSE IF st.ret = None
                THEN pc' = "TypeError" /\ UNCHANGED run
                ELSE /\ pc' = next
                     /\ run' = [run EXCEPT
                                  !.interpreted[layer] = st,
                                  !.log = Append(@, Event("interpret_curves",
                                                          layer))]
    /\ UNCHANGED <<BOUNDS_MAX_X, BOUNDS_MAX_Y>>
    /\ RunFrame

RunInterpretEngrave ==
    /\ pc = "interpret_engrave"
    /\ RunInterpret("engrave", "interpret_cut")

RunInterpretCut ==
    /\ pc = "interpret_cut"
    /\ RunInterpret("cut", "unprocessed")

\* lines 1447-1448
TotalOutOfBounds ==
    run.interpreted["cut"].objects_out_of_bounds
        + run.interpreted["engrave"].objects_out_of_bounds

TotalSkipped ==
    run.interpreted["cut"].objects_skipped
        + run.interpreted["engrave"].objects_skipped

\* lines 1446-1468: 'Exit script and manually fix errors?' when an object
\* was out of bounds or skipped; yes ends the run with 2
RunUnprocessed ==
    /\ pc = "unprocessed"
    /\ IF TotalOutOfBounds > 0 \/ TotalSkipped > 0
       THEN \E message \in {6, 7} :
               /\ run' = [run EXCEPT
                            !.log = Append(@, Event("unprocessed", "both")),
                            !.exit = IF message = 6 THEN 2 ELSE @]
               /\ pc' = IF message = 6 THEN "run_done" ELSE "sort"
       ELSE pc' = "sort" /\ UNCHANGED run
    /\ UNCHANGED <<BOUNDS_MAX_X, BOUNDS_MAX_Y>>
    /\ RunFrame

\* the list of a layer after sort_advanced, which asks about the alternative
\* sort itself
SortedLayer(layer, response) ==
    IF run.found[layer]
    THEN sort_advanced(run.interpreted[layer].curve_object_list,
                       [run.material_data EXCEPT !.response = response])
    ELSE <<>>

\* lines 1474-1487
RunSort ==
    /\ pc = "sort"
    /\ \E response \in [Layers -> {6, 7}] :
          run' = [run EXCEPT
                    !.sorted = [l \in Layers |-> SortedLayer(l, response[l])],
                    !.log = @ \o SelectSeq(
                                <<Event("alternative_sort", "engrave"),
                                  Event("alternative_sort", "cut")>>,
                                LAMBDA e : /\ run.found[e.layer]
                                           /\ AlternativeAsked(
                                                  run.material_data))]
    /\ pc' = "gcode"
    /\ UNCHANGED <<BOUNDS_MAX_X, BOUNDS_MAX_Y>>
    /\ RunFrame

\* lines 1495-1517: gcode_from_objects for each layer whose list is not
\* None, else no gcode and lengths 0
RunGcode ==
    /\ pc = "gcode"
    /\ LET document == run.layers["engrave"] \o run.layers["cut"]
       IN  run' = [run EXCEPT
                     !.gcode = [l \in Layers |-> LineBlocks(run.sorted[l])],
                     !.lines = [l \in Layers |-> Len(run.sorted[l])],
                     !.length_active =
                         [l \in Layers |-> ActiveLength(run.sorted[l], document)],
                     !.length_passive =
                         [l \in Layers |-> PassiveLength(run.sorted[l])]]
    /\ pc' = "duration"
    /\ UNCHANGED <<BOUNDS_MAX_X, BOUNDS_MAX_Y>>
    /\ RunFrame

\* lines 1521-1523
RunDuration ==
    /\ pc = "duration"
    /\ LET duration_engrave ==
               Duration(run.length_active["engrave"],
                        run.length_passive["engrave"],
                        run.material_data.EngravingSpeed)
           duration_cut ==
               Duration(run.length_active["cut"],
                        run.length_passive["cut"],
                        run.material_data.CuttingSpeed)
       IN  run' = [run EXCEPT
                     !.duration = [l \in Layers |->
                                      IF l = "engrave" THEN duration_engrave
                                      ELSE duration_cut],
                     !.duration_total =
                         PyMultiply(PyAdd(duration_engrave, duration_cut),
                                    PyInt(_ESTIMATE_MODIFIER))]
    /\ pc' = "concatenate"
    /\ UNCHANGED <<BOUNDS_MAX_X, BOUNDS_MAX_Y>>
    /\ RunFrame

\* lines 1529-1605: the final gcode, put in the document's notes
RunConcatenate ==
    /\ pc = "concatenate"
    /\ run' = [run EXCEPT
                 !.gcode_final =
                     Concatenate(run, Summary(run, TotalSkipped,
                                              TotalOutOfBounds))]
    /\ pc' = "save"
    /\ UNCHANGED <<BOUNDS_MAX_X, BOUNDS_MAX_Y>>
    /\ RunFrame

\* lines 1612-1637: no path is given and the run ends with 3; the file
\* cannot be opened and open raises IOError; the text is written, and the
\* run ends with 0 after the summary is shown, or with 3 after 'Unable to
\* save file' when the file is not there afterwards
RunSave ==
    /\ pc = "save"
    /\ \E save \in {"no path", "not opened", "not there", "saved"} :
          /\ run' = [run EXCEPT
                       !.final_file =
                           IF save \in {"not there", "saved"}
                           THEN run.gcode_final ELSE @,
                       !.log =
                           IF save = "not there"
                           THEN Append(@, Event("unable_to_save", "both"))
                           ELSE IF save = "saved"
                           THEN Append(@, Event("file_summary", "both"))
                           ELSE @,
                       !.exit = IF save = "saved" THEN 0
                                ELSE IF save = "not opened" THEN @
                                ELSE 3]
          /\ pc' = IF save = "not opened" THEN "IOError" ELSE "run_done"
    /\ UNCHANGED <<BOUNDS_MAX_X, BOUNDS_MAX_Y>>
    /\ RunFrame

NextRun ==
    \/ RunStartup
    \/ RunGetEngrave
    \/ RunGetCut
    \/ RunMaterial
    \/ RunInterpretEngrave
    \/ RunInterpretCut
    \/ RunUnprocessed
    \/ RunSort
    \/ RunGcode
    \/ RunDuration
    \/ RunConcatenate
    \/ RunSave

SpecRun == InitRun /\ [][NextRun]_vars

(***************************************************************************)
(* Claims about interpret_curves (SpecInterpret).                          *)
(***************************************************************************)
\* the bounding box of a curve leaves the envelope on one of its sides
Violates(obj) ==
    \/ obj.box[1] < 0
    \/ obj.box[2] > BOUNDS_MAX_X
    \/ obj.box[3] < 0
    \/ obj.box[4] > BOUNDS_MAX_Y

\* the curves of the argument the loop has gone through
Interpreted == 1 .. (ic.index - 1)

\* the guid of the given curve a descriptor was made of
SourceGuid(descriptor) ==
    IF descriptor.guid > CopyOffset
    THEN descriptor.guid - CopyOffset
    ELSE descriptor.guid

\* C11: every descriptor of the list interpret_curves builds has a bounding
\* box with 0 <= min_x, max_x <= BOUNDS_MAX_X, 0 <= min_y and
\* max_y <= BOUNDS_MAX_Y, a box on the border being inside; no curve whose
\* box violates a bound has a descriptor in the list, and the out-of-bounds
\* count is the number of such curves gone through, one for each.
C11_WithinEnvelope ==
    ic.object_guid # <<>> =>
        /\ \A k \in DOMAIN ic.curve_object_list :
              LET box == ic.curve_object_list[k].bounding_box
              IN  /\ 0 <= box[1]
                  /\ box[2] <= BOUNDS_MAX_X
                  /\ 0 <= box[3]
                  /\ box[4] <= BOUNDS_MAX_Y
        /\ \A i \in Interpreted :
              Violates(ic.object_guid[i]) =>
                  \A k \in DOMAIN ic.curve_object_list :
                      SourceGuid(ic.curve_object_list[k]) # i
        /\ ic.objects_out_of_bounds =
              Cardinality({i \in Interpreted : Violates(ic.object_guid[i])})

\* interpret_curves has returned a list with a descriptor whose box lies on
\* the envelope's border, having counted a curve out of bounds
C11_Witness ==
    /\ pc = "interpret_done"
    /\ ic.ret = "triple"
    /\ BOUNDS_MAX_X > 0
    /\ ic.objects_out_of_bounds > 0
    /\ \E k \in DOMAIN ic.curve_object_list :
          ic.curve_object_list[k].bounding_box
              = <<0, BOUNDS_MAX_X, 0, BOUNDS_MAX_Y>>

(***************************************************************************)
(* Claims about run_script (SpecRun).                                      *)
(***************************************************************************)
\* a fraction in lowest terms
Ratio(n, d) ==
    LET g == GCD(Abs(n), d)
    IN  <<n \div g, d \div g>>

\* the sum of two fractions
Plus(p, q) ==
    LET g == GCD(p[2], q[2])
    IN  Ratio(p[1] * (q[2] \div g) + q[1] * (p[2] \div g), (p[2] \div g) * q[2])

\* the length in model units that a length of the program, a float or the
\* int 0, is the double of or is off by rounding errors
Units(length) == FloatNearest(length, UnitsPerMm)

\* a length over a speed in milliseconds, nothing dropped
Over(length, speed) == Ratio(Units(length), (UnitsPerMm \div 1000) * speed)

\* run_script has computed duration_total
Estimated ==
    \/ pc \in {"concatenate", "save", "IOError"}
    \/ pc = "run_done" /\ run.exit \in {0, 3}

\* C12: the total estimated duration is (engrave_active / engrave_speed
\* + engrave_passive / rapid_speed + cut_active / cut_speed
\* + cut_passive / rapid_speed) times the acceleration factor, the quotients
\* being taken without truncation: the total, in seconds, is within a
\* millisecond of the value of the formula for the lengths in model units.
C12_DurationFormula ==
    Estimated =>
        LET engrave == Plus(Over(run.length_active["engrave"],
                                 ParseInt(run.material_data.EngravingSpeed)),
                            Over(run.length_passive["engrave"], _G00_SPEED))
            cut == Plus(Over(run.length_active["cut"],
                             ParseInt(run.material_data.CuttingSpeed)),
                        Over(run.length_passive["cut"], _G00_SPEED))
            sum == Plus(engrave, cut)
        IN  FloatNearest(run.duration_total, 1000)
                - (sum[1] * _ESTIMATE_MODIFIER) \div sum[2] \in {0, 1}

\* the estimate for 1000 mm engraved at speed 50 after 200 mm of rapid move
\* and nothing cut: 1000/50 + 200/45 = 24.444... seconds
C12_Witness ==
    /\ pc = "concatenate"
    /\ run.length_active["engrave"] = PyFloat(FloatOfInt(1000))
    /\ run.length_passive["engrave"] = PyFloat(FloatOfInt(200))
    /\ ParseInt(run.material_data.EngravingSpeed) = 50
    /\ run.length_active["cut"] = PyInt(0)
    /\ run.length_passive["cut"] = PyInt(0)
    /\ run.duration_total.float
    /\ FloatNearest(run.duration_total, 1000) = 24444

\* the places of the log where the user is asked to go on or stop because
\* of objects left out
Asked(whats) == {i \in DOMAIN run.log : run.log[i].what \in whats}

\* the places of the log where interpret_curves returned
Classified == Asked({"interpret_curves"})

\* the question at place i of the log comes after the classification: a
\* layer has been classified before it and none is after it
AfterClassification(i) ==
    /\ \E j \in Classified : j < i
    /\ \A j \in Classified : j < i

\* C15: the user is asked to continue or abort because of excluded or
\* invalid objects (out of bounds, non-planar, skipped) at most once in a
\* run, and only after interpret_curves has classified both layers; no such
\* question is asked per layer or before classification.
C15_AskedOnceAfterClassification ==
    /\ Cardinality(Asked({"non_planar", "unprocessed"})) <= 1
    /\ \A i \in Asked({"non_planar", "unprocessed"}) : AfterClassification(i)

\* the layer holds a curve that is not planar
HoldsNonPlanar(layer) ==
    \E i \in DOMAIN run.layers[layer] :
        /\ run.layers[layer][i].is_curve
        /\ ~run.layers[layer][i].planar

\* C15, amended: the user is asked to continue or abort because of
\* out-of-bounds or skipped objects at most once in a run and only after
\* classification; because of non-planar curves the user is asked before
\* classification and per layer: once about each layer that holds one,
\* when the objects of that layer are fetched.
C15_AskedPerLayerThenOnce ==
    /\ Cardinality(Asked({"unprocessed"})) <= 1
    /\ \A i \in Asked({"unprocessed"}) : AfterClassification(i)
    /\ \A i \in Asked({"non_planar"}) :
          /\ HoldsNonPlanar(run.log[i].layer)
          /\ \A j \in Asked({"non_planar"}) :
                run.log[j].layer = run.log[i].layer => j = i
          /\ \A j \in Classified : i < j
    /\ \A j \in Classified :
          HoldsNonPlanar(run.log[j].layer) =>
              \E i \in Asked({"non_planar"}) :
                  run.log[i].layer = run.log[j].layer

\* the user was asked about the non-planar curves of a layer, went on, and
\* was asked once more after the classification
C15_Witness ==
    \E i \in Asked({"non_planar"}), j \in Classified,
       k \in Asked({"unprocessed"}) :
        i < j /\ j < k

\* the final gcode holds the section of the layer
HasSection(layer) ==
    \E i \in DOMAIN run.gcode_final :
        run.gcode_final[i] = Word(SectionName(layer))

\* C16: the final program holds the engraving (the cutting) section only if
\* at least one object of that layer was turned into gcode; a selected
\* layer whose curves were all out of bounds gets no section.
C16_SectionOnlyWithGcode ==
    \A layer \in Layers : HasSection(layer) => run.lines[layer] >= 1

(***************************************************************************)
(* Claims about sort_advanced (Spec).                                      *)
(***************************************************************************)
\* the containment rule: a is closed and either b is closed and the kernel
\* reports b inside a, or b is open with its bounding box strictly inside
\* a's on all four bounds
Contains(a, b) ==
    /\ a.guid # b.guid
    /\ a.closed
    /\ \/ b.closed /\ <<a.guid, b.guid>> \in containment
       \/ /\ ~b.closed
          /\ b.bounding_box[1] > a.bounding_box[1]
          /\ b.bounding_box[2] < a.bounding_box[2]
          /\ b.bounding_box[3] > a.bounding_box[3]
          /\ b.bounding_box[4] < a.bounding_box[4]

\* b is somewhere before a in the list
Earlier(list, b, a) ==
    \E i \in DOMAIN list : \E j \in DOMAIN list :
        i < j /\ list[i] = b /\ list[j] = a

\* C1: whenever a descriptor A contains a descriptor B by the containment
\* rule, B appears strictly earlier than A in the returned cut order.
C1_ContainedCutFirst ==
    pc = "sort_done" =>
        \A a \in Range(object_list) : \A b \in Range(object_list) :
            Contains(a, b) => Earlier(sorted_list, b, a)

\* C2: sort_advanced returns a permutation of its input: every input
\* descriptor, with every field as it was given, appears exactly once in the
\* result and nothing else does, with or without the alternative
\* (dispersal) sort and with or without nesting; no removal from the
\* working list fails.
C2_Permutation ==
    /\ pc # "ValueError"
    /\ pc = "sort_done" =>
        /\ Len(sorted_list) = Len(object_list)
        /\ \A k \in DOMAIN object_list :
              Cardinality({i \in DOMAIN sorted_list :
                              sorted_list[i] = object_list[k]}) = 1

\* three descriptors, one nested in another, sorted in dispersal mode into
\* an order other than the given one
C2_Witness ==
    /\ pc = "sort_done"
    /\ AlternativeSort(material_data)
    /\ Len(object_list) = 3
    /\ \E a \in Range(object_list) : \E b \in Range(object_list) : Contains(a, b)
    /\ sorted_list # object_list

\* the descriptor of the given list that has the guid
ObjectOf(guid) == CHOOSE o \in Range(object_list) : o.guid = guid

\* C13: when the input holds only closed descriptors and none contains
\* another, the returned order is ascending by area, descriptors of equal
\* area in ascending (start_point.x, start_point.y) order.
C13_AscendingArea ==
    (/\ pc = "sort_done"
     /\ \A o \in Range(object_list) : o.closed
     /\ \A a \in Range(object_list) : \A b \in Range(object_list) :
            ~Contains(a, b))
    => \A i \in DOMAIN sorted_list : \A j \in DOMAIN sorted_list :
          i < j =>
            \/ sorted_list[i].area < sorted_list[j].area
            \/ /\ sorted_list[i].area = sorted_list[j].area
               /\ ~PointGreater(sorted_list[i].start_point,
                                sorted_list[j].start_point)

\* closed descriptors of areas 100, 50, 10 with one start point and no
\* nesting have been returned as 10, 50, 100
C13_Witness ==
    /\ pc = "sort_done"
    /\ containment = {}
    /\ Len(object_list) = 3
    /\ \A i \in 1 .. 3 : object_list[i].closed
    /\ \A i \in 1 .. 3 : object_list[i].start_point = object_list[1].start_point
    /\ <<object_list[1].area, object_list[2].area, object_list[3].area>>
            = <<100, 50, 10>>
    /\ <<sorted_list[1].area, sorted_list[2].area, sorted_list[3].area>>
            = <<10, 50, 100>>

\* C17: for a closed P, findChildrenObjects(P, candidates) holds exactly
\* the candidates other than P that are closed and reported inside P by the
\* kernel, or open with the bounding box strictly inside P's on all four
\* bounds, each once; for an open P it holds nothing.
C17_ChildrenRule ==
    pc = "sort_loop" =>
        \A i \in DOMAIN complete_list :
            LET P == complete_list[i]
                children == findChildrenObjects(P, complete_list)
            IN  /\ Range(children) =
                        {c \in Range(complete_list) : Contains(P, c)}
                /\ Len(children) = Cardinality(Range(children))
                /\ ~P.closed => children = <<>>

\* the walk is at a closed descriptor with a closed child inside it and an
\* open candidate that shares a bound with it and is not its child
C17_Witness ==
    /\ pc = "sort_loop"
    /\ \E P \in Range(complete_list) :
       \E c \in Range(complete_list) :
       \E t \in Range(complete_list) :
        /\ P.closed /\ c.closed /\ ~t.closed
        /\ <<P.guid, c.guid>> \in containment
        /\ t.bounding_box[1] = P.bounding_box[1]
        /\ LET children == findChildrenObjects(P, complete_list)
           IN  c \in Range(children) /\ t \notin Range(children)

\* the children one node visits, in the order of the visits
SameNode(i, j) == i < j /\ visits[i][1] = visits[j][1]

\* C18, as stated: the children of one node are visited in ascending
\* (start_point.x, start_point.y) order.
C18_AscendingVisits ==
    \A i \in DOMAIN visits : \A j \in DOMAIN visits :
        SameNode(i, j) =>
            ~PointGreater(ObjectOf(visits[i][2]).start_point,
                          ObjectOf(visits[j][2]).start_point)

\* the groups of the dispersal for n open descriptors: group i holds
\* GroupSize(n, i) elements and starts after GroupOffset(n, i) elements
GroupSize(n, i) == IF n > i THEN (n - i + 4) \div 5 ELSE 0

GroupOffset(n, i) ==
    LET upto == [k \in 0 .. 5 |-> IF k = 0 THEN 0 ELSE GroupSize(n, k - 1)]
    IN  IF i = 0 THEN 0
        ELSE IF i = 1 THEN upto[1]
        ELSE IF i = 2 THEN upto[1] + upto[2]
        ELSE IF i = 3 THEN upto[1] + upto[2] + upto[3]
        ELSE upto[1] + upto[2] + upto[3] + upto[4]

\* where the element at position p (from 0) of the sorted open list is in
\* the concatenated groups (from 1)
Dispersed(n, p) == GroupOffset(n, p % 5) + (p \div 5) + 1

\* the place a descriptor has among the given descriptors of its kind:
\* closed by descending area, then descending start point, then as given;
\* open by descending start point, then as given
Place(c) ==
    Cardinality({o \in Range(object_list) :
        /\ o.closed = c.closed
        /\ \/ o.closed /\ o.area > c.area
           \/ /\ o.closed => o.area = c.area
              /\ \/ PointGreater(o.start_point, c.start_point)
                 \/ o.start_point = c.start_point /\ o.guid < c.guid})

OpenCount == Cardinality({o \in Range(object_list) : ~o.closed})

\* c1 is before c2 in the working list
Precedes(c1, c2) ==
    IF c1.closed # c2.closed THEN c1.closed
    ELSE IF c1.closed \/ ~AlternativeSort(material_data)
    THEN Place(c1) < Place(c2)
    ELSE Dispersed(OpenCount, Place(c1)) < Dispersed(OpenCount, Place(c2))

\* C18, amended: the children of one node are visited in the order of the
\* working list: closed before open, closed by descending area and then
\* descending start point, open by descending start point (in the order of
\* the round-robin groups in dispersal mode), equal keys as given.
C18_WorkingListOrder ==
    \A i \in DOMAIN visits : \A j \in DOMAIN visits :
        SameNode(i, j) =>
            Precedes(ObjectOf(visits[i][2]), ObjectOf(visits[j][2]))

\* a node has visited two open children of different start points
C18_Witness ==
    \E i \in DOMAIN visits : \E j \in DOMAIN visits :
        /\ SameNode(i, j)
        /\ ~ObjectOf(visits[i][2]).closed
        /\ ~ObjectOf(visits[j][2]).closed
        /\ ObjectOf(visits[i][2]).start_point
                # ObjectOf(visits[j][2]).start_point

\* the working list as SortPrepare leaves it in dispersal mode
JustDispersed ==
    /\ pc = "sort_loop"
    /\ discovered_complete = <<>>
    /\ AlternativeSort(material_data)

OpenPart == SelectSeq(complete_list, LAMBDA o : ~o.closed)

\* the open part of the working list is the concatenation of the groups
\* 0..4, group i holding the positions i, i+5, i+10, ... of the open list
\* sorted by descending start point
RoundRobin ==
    LET n == Len(OpenPart)
        sorted == [p \in 0 .. n - 1 |-> OpenPart[Dispersed(n, p)]]
    IN  \A p \in 0 .. n - 1 : \A q \in 0 .. n - 1 :
            p < q => ~PointGreater(sorted[q].start_point,
                                   sorted[p].start_point)

\* C19, as stated: the groups are round-robin, concatenated in the order
\* 0..4, and of equal size for every number of open descriptors.
C19_EqualGroups ==
    JustDispersed =>
        /\ RoundRobin
        /\ \A i \in 0 .. 4 : GroupSize(Len(OpenPart), i)
                                = GroupSize(Len(OpenPart), 0)

\* C19, amended: the groups are round-robin and concatenated in the order
\* 0..4; group i holds the ceiling of (n - i) / 5 elements, so the sizes
\* differ by at most one and are equal only when 5 divides n.
C19_RoundRobinGroups ==
    JustDispersed =>
        /\ RoundRobin
        /\ \A i \in 0 .. 4 :
            /\ GroupSize(Len(OpenPart), i) <= GroupSize(Len(OpenPart), 0)
            /\ GroupSize(Len(OpenPart), i) >= GroupSize(Len(OpenPart), 0) - 1
        /\ (\A i \in 0 .. 4 : GroupSize(Len(OpenPart), i)
                                = GroupSize(Len(OpenPart), 0))
                <=> Len(OpenPart) % 5 = 0

\* seven open descriptors have been dispersed into groups of 2, 2, 1, 1, 1
C19_Witness ==
    /\ JustDispersed
    /\ Len(OpenPart) = 7
    /\ complete_list # SortedReverse(complete_list, ByStart(complete_list))

\* the list with the elements at i and j exchanged
Swap(list, i, j) ==
    [k \in DOMAIN list |->
        IF k = i THEN list[j] ELSE IF k = j THEN list[i] ELSE list[k]]

\* every exchange of two descriptors of the given list leaves the result
\* as it is
OrderIndependent ==
    \A i \in DOMAIN object_list : \A j \in DOMAIN object_list :
        i < j => sort_advanced(Swap(object_list, i, j), material_data)
                    = sorted_list

\* no two closed descriptors share area and start point, no two open
\* descriptors share the start point
NoTies ==
    \A a \in Range(object_list) : \A b \in Range(object_list) :
        (a.guid # b.guid /\ a.closed = b.closed) =>
            \/ a.start_point # b.start_point
            \/ a.closed /\ a.area # b.area

\* C20, as stated: the same descriptors given in another order are
\* returned in the same order, also when descriptors share the start point
\* (and the area).
C20_OrderIndependent == pc = "sort_done" => OrderIndependent

\* C20, amended: the same descriptors given in another order are returned
\* in the same order when no two closed descriptors share both area and
\* start point and no two open descriptors share the start point.
C20_OrderIndependentNoTies ==
    (pc = "sort_done" /\ NoTies) => OrderIndependent

\* three descriptors with different keys, one nested in another, returned
\* in an order other than the given one
C20_Witness ==
    /\ pc = "sort_done"
    /\ NoTies
    /\ Len(object_list) = 3
    /\ containment # {}
    /\ \A o \in Range(object_list) : o.closed
    /\ \E a \in Range(object_list) : \E b \in Range(object_list) :
            a.area = b.area /\ a.start_point # b.start_point
    /\ sorted_list # object_list

(***************************************************************************)
(* Claims about the quantization (SpecQuant).                              *)
(***************************************************************************)
\* C9: every coordinate written to the program is the source value rounded
\* to 3 decimals with the round-half-down policy: a value exactly halfway
\* between two 3-decimal values goes to the one nearer zero (0.1875 is
\* written 0.187), every other value to the nearest.
C9_RoundHalfDown ==
    pc = "quantized" => q_out = QuantizeHalfDown(q_in)

\* C10: the quantization is idempotent: quantizing a quantized value gives
\* the same value again.
C10_QuantizeIdempotent ==
    pc = "requantized" => q_again = q_out

\* a value that the first quantization moved (0.1875) and the second left
C10_Witness ==
    /\ pc = "requantized"
    /\ q_in = 1875
    /\ q_out # q_in
    /\ q_again = q_out

(***************************************************************************)
(* Claims about arc_calc (SpecArc).                                        *)
(***************************************************************************)
\* C6: arc_calc returns as (x_offset, y_offset) the vector from the curve's
\* start point to its centre, wherever the start point lies around the
\* centre: each offset is the component of centre minus start, nothing
\* added and nothing lost; for centre (50,50) and start (60,50) the offsets
\* are written as -10.000 and 0.000.
C6_OffsetExact ==
    pc = "arc_done" =>
        /\ arc_ret.x_offset =
                [units |-> arc_obj.center_point[1] - arc_obj.start_point[1],
                 error |-> 0]
        /\ arc_ret.y_offset =
                [units |-> arc_obj.center_point[2] - arc_obj.start_point[2],
                 error |-> 0]

\* C6, amended: arc_calc returns as (x_offset, y_offset) the vector from
\* the curve's start point to its centre up to the rounding errors of its
\* floats, wherever the start point lies around the centre: each offset
\* stands for the component of centre minus start, is off it by a rounding
\* error at most, and is written as a thousandth next to it (half a
\* thousandth away at most, the error deciding the side of a component that
\* is halfway); for centre (50,50) and start (60,50) the offsets are exact
\* and written as -10.000 and 0.000.
C6_OffsetIsCenterMinusStart ==
    pc = "arc_done" =>
        LET x == arc_obj.center_point[1] - arc_obj.start_point[1]
            y == arc_obj.center_point[2] - arc_obj.start_point[2]
        IN  /\ arc_ret.x_offset.units = x
            /\ arc_ret.y_offset.units = y
            /\ 2 * Abs(QuantizeOffset(arc_ret.x_offset) - x) <= ROUNDING
            /\ 2 * Abs(QuantizeOffset(arc_ret.y_offset) - y) <= ROUNDING
            /\ (arc_obj.center_point = <<50 * UnitsPerMm, 50 * UnitsPerMm>>
                    /\ arc_obj.start_point = <<60 * UnitsPerMm, 50 * UnitsPerMm>>)
                => /\ arc_ret.x_offset.error = 0
                   /\ arc_ret.y_offset.error = 0
                   /\ QuantizeOffset(arc_ret.x_offset) = -10 * UnitsPerMm
                   /\ QuantizeOffset(arc_ret.y_offset) = 0

\* a start point above and left of the centre, where the angle to the X axis
\* had to be taken past 180 degrees, and offsets whose floats came out below
\* 6 and above -8
C6_Witness ==
    /\ pc = "arc_done"
    /\ arc_obj.center_point = <<50 * UnitsPerMm, 50 * UnitsPerMm>>
    /\ arc_obj.start_point = <<44 * UnitsPerMm, 58 * UnitsPerMm>>
    /\ arc_ret.x_offset.units = 6 * UnitsPerMm
    /\ arc_ret.y_offset.units = -8 * UnitsPerMm
    /\ arc_ret.x_offset.error = -1
    /\ arc_ret.y_offset.error = 1

\* C7: a cross product of the offset vector and the midpoint vector that is
\* exactly zero raises nothing, counts as +1 and gives G03; a strictly
\* positive one gives G03 and a strictly negative one G02.  The cross
\* product is the float the program computes.
C7_DirectionFromCross ==
    pc = "arc_done" =>
        LET c == VectorCrossProductZ(
                    VectorCreate(arc_obj.start_point, arc_obj.center_point),
                    VectorCreate(arc_obj.mid_point, arc_obj.center_point))
        IN  /\ arc_ret.gcode_direction \in {"G02", "G03"}
            /\ (c.sign = 0 => arc_ret.gcode_direction = "G03")
            /\ (c.sign > 0 => arc_ret.gcode_direction = "G03")
            /\ (c.sign < 0 => arc_ret.gcode_direction = "G02")

\* the sample opposite the start point, in whole millimetres: the cross
\* product is 0
C7_Witness ==
    /\ pc = "arc_done"
    /\ arc_obj.center_point = <<0, 0>>
    /\ arc_obj.start_point = <<3 * UnitsPerMm, 4 * UnitsPerMm>>
    /\ arc_obj.mid_point = <<-3 * UnitsPerMm, -4 * UnitsPerMm>>
    /\ VectorCrossProductZ(
          VectorCreate(arc_obj.start_point, arc_obj.center_point),
          VectorCreate(arc_obj.mid_point, arc_obj.center_point)).sign = 0
    /\ arc_ret.gcode_direction = "G03"

(***************************************************************************)
(* The blocks of the program text: a block ends with its M22.  Block k is  *)
(* the one written for the k-th descriptor.                                *)
(***************************************************************************)
RECURSIVE SplitBlocks(_, _)
SplitBlocks(text, block) ==
    IF text = <<>> THEN <<>>
    ELSE IF Head(text).cmd = "M22"
    THEN <<Append(block, Head(text))>> \o SplitBlocks(Tail(text), <<>>)
    ELSE SplitBlocks(Tail(text), Append(block, Head(text)))

IsCommand(token) == token.cmd # "NL"

\* the commands of the blocks written so far, line breaks left out
Blocks ==
    LET blocks == SplitBlocks(gcode, <<>>)
    IN  [k \in DOMAIN blocks |-> SelectSeq(blocks[k], IsCommand)]

CutCommands == {"G01", "G02", "G03"}

BlocksOf(types) ==
    {k \in DOMAIN Blocks : g_objects[k].curve_type \in types}

\* C3: the block of every descriptor is G00 to its quantized start point,
\* M12, one or more cut moves (G01, G02, G03), M22; no block has M12 and
\* M22 with no cut move between them.
C3_BlockHasCut ==
    pc \in {"gcode_loop", "gcode_done"} =>
        \A k \in DOMAIN Blocks :
            LET cmds == Blocks[k]
            IN  /\ Len(cmds) >= 4
                /\ cmds[1] = G00(g_objects[k].start_point)
                /\ cmds[2] = M12
                /\ cmds[Len(cmds)] = M22
                /\ \A i \in 3 .. Len(cmds) - 1 : cmds[i].cmd \in CutCommands

\* C4: in the block curve_calc_to_lines writes, the last command before M22
\* is a cut move to the quantized end point of the curve, also when the
\* scan left the domain before any segment was completed.
C4_LastCutIsEndPoint ==
    pc \in {"gcode_loop", "gcode_done"} =>
        \A k \in BlocksOf({"ellipse", "curve"}) :
            LET cmds == Blocks[k]
            IN  /\ Len(cmds) >= 2
                /\ cmds[Len(cmds) - 1] = G01(g_objects[k].end_point)

\* C5: the block of a circle has its two arc moves and then exactly one
\* line to the start point when the written end of the second arc differs
\* from the quantized start point in x or in y, and no line when it does
\* not.
C5_ClosingLine ==
    pc \in {"gcode_loop", "gcode_done"} =>
        \A k \in BlocksOf({"circle"}) :
            LET cmds == Blocks[k]
                start == G00(g_objects[k].start_point)
                lines == {i \in 1 .. Len(cmds) : cmds[i].cmd = "G01"}
            IN  /\ Len(cmds) >= 5
                /\ cmds[3].cmd \in {"G02", "G03"}
                /\ cmds[4].cmd \in {"G02", "G03"}
                /\ IF cmds[4].x # start.x \/ cmds[4].y # start.y
                   THEN /\ Len(cmds) = 6
                        /\ lines = {5}
                        /\ cmds[5] = G01(g_objects[k].start_point)
                   ELSE /\ Len(cmds) = 5
                        /\ lines = {}

\* a list of two circles has been written, one with the closing line and
\* one without
C5_Witness ==
    /\ pc = "gcode_done"
    /\ \E j, k \in BlocksOf({"circle"}) :
        /\ Len(Blocks[j]) = 6
        /\ Blocks[j][5].cmd = "G01"
        /\ Len(Blocks[k]) = 5

\* C8: the two arc moves of a circle's block have the same direction.
C8_HalvesSameDirection ==
    pc \in {"gcode_loop", "gcode_done"} =>
        \A k \in BlocksOf({"circle"}) :
            /\ Len(Blocks[k]) >= 4
            /\ Blocks[k][3].cmd \in {"G02", "G03"}
            /\ Blocks[k][4].cmd = Blocks[k][3].cmd

\* a clockwise and a counter-clockwise circle have been written, the one
\* as two G02, the other as two G03
C8_Witness ==
    /\ pc = "gcode_done"
    /\ \E j, k \in BlocksOf({"circle"}) :
        /\ g_objects[j].turn = -1
        /\ Blocks[j][3].cmd = "G02" /\ Blocks[j][4].cmd = "G02"
        /\ g_objects[k].turn = 1
        /\ Blocks[k][3].cmd = "G03" /\ Blocks[k][4].cmd = "G03"

\* the kernel's values over the domain of the curve being linearized.
\* rs.CurveCurvature(...)[3], which the program calls curve_curvature, is
\* the radius of the circle of curvature: the curvature is its inverse, the
\* higher the value the lower the curvature.
DomainValues ==
    LET width == cc.obj.domain[2] - cc.obj.domain[1]
        steps == (width + scan_resolution - 1) \div scan_resolution
    IN  {cc.obj.curv[k] : k \in 1 .. steps}

\* C14: on one curve a position of higher curvature (lower radius) never
\* gets a longer segment length than a position of lower curvature; the
\* position of maximum curvature gets the minimum segment length and the
\* position of minimum curvature the maximum segment length.
C14_DenserWhereCurved ==
    \A i \in DOMAIN cc.targets :
        /\ \A j \in DOMAIN cc.targets :
              cc.targets[i][1] < cc.targets[j][1]
                    => cc.targets[i][2] <= cc.targets[j][2]
        /\ cc.targets[i][1] = Min(DomainValues)
                    => cc.targets[i][2] = segment_min_length
        /\ cc.targets[i][1] = Max(DomainValues)
                    => cc.targets[i][2] = segment_max_length

(***************************************************************************)
(* Claims about gcode_from_objects, continued (SpecGcode, SpecLines).      *)
(***************************************************************************)
\* the point of the circle opposite its start point, half the domain away
Opposite(obj) ==
    <<2 * obj.center_point[1] - obj.start_point[1],
      2 * obj.center_point[2] - obj.start_point[2]>>

\* C21: a circle is written as two arcs split at the midpoint of its
\* parameter domain, (t0 + t1) / 2, whatever the domain: the branch does not
\* fail, and the first arc move of the block ends half the domain after the
\* start point, at the opposite point of the circle, the second follows it
\* directly.
C21_SplitAtMidpoint ==
    /\ pc = "TypeError" => g_objects[g_index].curve_type # "circle"
    /\ pc \in {"gcode_loop", "gcode_done"} =>
        \A k \in BlocksOf({"circle"}) :
            /\ Len(Blocks[k]) >= 5
            /\ Blocks[k][3].cmd \in {"G02", "G03"}
            /\ Blocks[k][4].cmd \in {"G02", "G03"}
            /\ Blocks[k][3].x = G00(Opposite(g_objects[k])).x
            /\ Blocks[k][3].y = G00(Opposite(g_objects[k])).y

\* C22: when the pre-scan finds the same curvature at every sample
\* (curve_curvature_max = curve_curvature_min), the walk does not fail with
\* a division by zero: the normalized curvature counts as 0, so every
\* segment started gets the length the cubic gives for 0, the minimum.
C22_ConstantCurvature ==
    cc.scanned /\ cc.curve_curvature_max = cc.curve_curvature_min =>
        /\ pc # "ZeroDivisionError"
        /\ \A i \in DOMAIN cc.targets : cc.targets[i][2] = segment_min_length

\* the positions inside curve_calc_to_lines
InLines == {"curve_calc_to_lines", "lines_walk", "lines_scan", "lines_break"}

\* only a scan that goes round a closed curve gets MaxScan steps far: the
\* scan of an open curve is never stopped by the bound
ScanBoundOnlyRepeating ==
    /\ pc = "lines_scan"
    /\ LengthLess(cc.length, cc.segment_length)
    /\ cc.turns >= MaxScan
    => cc.obj.loop

\* C23: curve_calc_to_lines terminates for every curve: a call that has
\* started leaves the function (with its text or with an error), also for
\* a short or small closed curve whose points never get the segment length
\* away from the current point.
C23_WalkTerminates == (pc = "curve_calc_to_lines") ~> (pc \notin InLines)

\* the move that ends a sub-element written by its own kind's logic: the
\* arc move arc_calc gives for an arc, the line to the end point for a line
\* and for the last segment of a linearized free-form element
EndMove(obj, sub) ==
    IF sub.kind = "arc"
    THEN ArcMove(arc_calc(ArcOf(obj, sub)), sub.end_point)
    ELSE G01(sub.end_point)

\* C24: the sub-elements of a polycurve are written one after the other by
\* the logic of their kind (arc through arc_calc, line as one line to its
\* end point, free-form element linearized as curve_calc_to_lines does), so
\* the cut moves of its block hold, in the order of the sub-elements, the
\* move that ends each of them at its exact end point, and the last cut
\* move of the block ends the last sub-element.
C24_SubElementsEndExactly ==
    pc \in {"gcode_loop", "gcode_done"} =>
        \A k \in BlocksOf({"polycurve"}) :
            LET cmds == Blocks[k]
                subs == g_objects[k].subs
            IN  \E f \in [1 .. Len(subs) -> 3 .. Len(cmds) - 1] :
                    /\ \A i \in 1 .. Len(subs) - 1 : f[i] < f[i + 1]
                    /\ f[Len(subs)] = Len(cmds) - 1
                    /\ \A i \in 1 .. Len(subs) :
                          cmds[f[i]] = EndMove(g_objects[k], subs[i])

(***************************************************************************)
(* Claims about a closing that fails (SpecInterpret).                      *)
(***************************************************************************)
\* a valid open curve the kernel calls closable and then fails to close
CloseFails(obj) ==
    /\ bounding_box(obj) # NoBox
    /\ obj.planar
    /\ ~obj.closed
    /\ obj.closable = "fails"

\* C25: when rs.CloseCurve returns no curve for an open closable curve,
\* interpret_curves does not end with an exception: the failure is put to
\* the user, and on the answer to continue the curve is kept as an open
\* descriptor (closed false, no area) on the handle it was given with.
C25_CloseFailureKeptOpen ==
    /\ pc # "ValueError"
    /\ \A i \in Interpreted :
          CloseFails(ic.object_guid[i]) =>
              \E k \in DOMAIN ic.curve_object_list :
                  /\ ic.curve_object_list[k].guid = i
                  /\ ~ic.curve_object_list[k].closed
                  /\ ic.curve_object_list[k].area = NoArea

(***************************************************************************)
(* Claims about the laser commands of the text (SpecGcode).                *)
(***************************************************************************)
\* the commands of the text in the order written, read with the laser off
\* (on = FALSE) at the start: M12 only when off, M22 only when on, a cut
\* move only when on, G00 only when off, and the laser off at the end
RECURSIVE LaserDiscipline(_, _)
LaserDiscipline(cmds, on) ==
    IF cmds = <<>> THEN ~on
    ELSE LET c == Head(cmds).cmd
         IN  IF c = "M12" THEN ~on /\ LaserDiscipline(Tail(cmds), TRUE)
             ELSE IF c = "M22" THEN on /\ LaserDiscipline(Tail(cmds), FALSE)
             ELSE IF c \in CutCommands
             THEN on /\ LaserDiscipline(Tail(cmds), on)
             ELSE IF c = "G00" THEN ~on /\ LaserDiscipline(Tail(cmds), on)
             ELSE LaserDiscipline(Tail(cmds), on)

\* C26: in the text of gcode_from_objects M12 and M22 alternate strictly,
\* starting with M12 and ending with M22; every cut move (G01, G02, G03)
\* lies between an M12 and the next M22, and every G00 is written while the
\* laser is off.
C26_LaserAlternates == LaserDiscipline(SelectSeq(gcode, IsCommand), FALSE)

\* a list of two descriptors has been written, a circle with its closing
\* line among them: two M12, two M22, arcs and a line
C26_Witness ==
    /\ pc = "gcode_done"
    /\ Len(Blocks) = 2
    /\ \E k \in BlocksOf({"circle"}) :
          /\ Len(Blocks[k]) = 6
          /\ Blocks[k][5].cmd = "G01"
    /\ Cardinality({i \in DOMAIN gcode : gcode[i].cmd = "M12"}) = 2
    /\ Cardinality({i \in DOMAIN gcode : gcode[i].cmd = "M22"}) = 2

(***************************************************************************)
(* Claims about the unpacking of interpret_curves' result (SpecRun).       *)
(***************************************************************************)
\* the positions of run_script after both layers have been interpreted
Unpacked ==
    {"unprocessed", "sort", "gcode", "duration", "concatenate", "save"}

\* C27: interpret_curves returns its triple for every list it is given, the
\* empty list included, so run_script never fails unpacking the result: a
\* selected layer that holds objects but no planar curve does not end the
\* run with an exception.
C27_TripleForEveryList ==
    /\ pc # "TypeError"
    /\ pc \in Unpacked =>
          \A layer \in Layers :
              run.found[layer] => run.interpreted[layer].ret = "triple"

(***************************************************************************)
(* Claims about the lines of the text (SpecGcode).                         *)
(***************************************************************************)
\* C28: every command of the text is on a line of its own: a command is
\* followed by a line break before the next command, in particular the
\* closing line of a circle and the M22 after it are on separate lines.
C28_OneCommandPerLine ==
    \A i \in DOMAIN gcode :
        IsCommand(gcode[i]) => i < Len(gcode) /\ gcode[i + 1] = NL

(***************************************************************************)
(* Claims about the termination of sort_advanced (SpecCyclic).             *)
(***************************************************************************)
\* the walk the next round of the while loop makes
RoundWalk == sort_depth_first(complete_list, complete_list[1], <<>>)

\* the walk of a round starts at the head of the working list, visits no
\* descriptor twice, and every descriptor it visited can be removed from
\* the working list, which gets shorter
WalkSound ==
    pc = "sort_loop" /\ Len(complete_list) > 0 =>
        /\ RoundWalk[1] = complete_list[1]
        /\ \A i, j \in DOMAIN RoundWalk :
              i # j => RoundWalk[i] # RoundWalk[j]
        /\ CanRemoveAll(complete_list, RoundWalk)
        /\ Len(RemoveAll(complete_list, RoundWalk)) < Len(complete_list)

\* C29: sort_advanced terminates for every finite list and every
\* containment answer, cyclic and mutual ones included: each walk visits a
\* descriptor at most once, every visited descriptor is still in the
\* working list when it is removed (no ValueError), the working list loses
\* at least its head in each round, and the function returns.
C29_SortTerminates ==
    /\ []WalkSound
    /\ [](pc # "ValueError")
    /\ <>(pc = "sort_done")

\* sort_advanced has returned all the descriptors of a list in which the
\* kernel reported two closed curves inside each other
C29_Witness ==
    /\ pc = "sort_done"
    /\ Len(sorted_list) = Len(object_list)
    /\ \E a, b \in DOMAIN object_list :
          /\ a # b
          /\ <<a, b>> \in containment
          /\ <<b, a>> \in containment

(***************************************************************************)
(* Claims about the counters of interpret_curves (SpecInterpret).          *)
(***************************************************************************)
\* C30: for a non-empty list, the descriptors made, the curves counted out
\* of bounds and the curves counted skipped add up to the curves gone
\* through, at the return to the number of curves given; a curve counted
\* out of bounds is not counted skipped as well, whether planar or not.
C30_CountsAddUp ==
    ic.object_guid # <<>> /\ ic.error = None =>
        /\ Len(ic.curve_object_list) + ic.objects_out_of_bounds
              + ic.objects_skipped = Cardinality(Interpreted)
        /\ ic.objects_out_of_bounds =
              Cardinality({i \in Interpreted :
                              bounding_box(ic.object_guid[i]) = NoBox})
        /\ ic.objects_skipped =
              Cardinality({i \in Interpreted :
                              /\ bounding_box(ic.object_guid[i]) # NoBox
                              /\ ~ic.object_guid[i].planar})
        /\ pc = "interpret_done" =>
              Cardinality(Interpreted) = Len(ic.object_guid)

\* interpret_curves has returned for a list with a curve that is out of
\* bounds and not planar, a curve that is inside and not planar, and a
\* curve it made a descriptor of
C30_Witness ==
    /\ pc = "interpret_done"
    /\ ic.ret = "triple"
    /\ ic.objects_out_of_bounds = 1
    /\ ic.objects_skipped = 1
    /\ Len(ic.curve_object_list) = 1
    /\ \E i \in DOMAIN ic.object_guid :
          /\ bounding_box(ic.object_guid[i]) = NoBox
          /\ ~ic.object_guid[i].planar

====
